---- MODULE Spec2Model ----
(***************************************************************************)
(* Racing data extraction pipeline: three phases (entities, pre-race,      *)
(* results), each a thread pool of workers over a document list, shared    *)
(* batches and seen-dictionaries, and a main thread that collects the      *)
(* futures in order and flushes the batches to storage.                    *)
(*                                                                         *)
(* Text is modelled as tuples of one-character strings wherever the code   *)
(* slices or splits it; Join turns a tuple into the TLA+ string that is    *)
(* used as a key.                                                          *)
(***************************************************************************)
EXTENDS Integers, Sequences, FiniteSets, TLC

None == "<None>"
\* None where the value, when present, is a number
NoNum == 0 - 1

(* ------------------------------ bounds -------------------------------- *)

\* worker threads of the pool (max_workers, 45 in the code)
NumWorkers == 2
\* threshold of the primary batch that triggers a flush (batch_size, 1000 / 500)
BatchSize == 1
\* storage transactions that may fail in one pipeline execution
MaxFlushFailures == 1

(* --------------------------- text helpers ----------------------------- *)

RECURSIVE Join(_)
Join(t) == IF t = <<>> THEN "" ELSE t[1] \o Join(Tail(t))

Min(a, b) == IF a < b THEN a ELSE b

\* Python s[a:b] for 0 <= a <= b (0-based, end exclusive, clamped to len(s))
Slice(t, a, b) == SubSeq(t, a + 1, Min(b, Len(t)))

\* Python s[a:]
SliceFrom(t, a) == SubSeq(t, a + 1, Len(t))

\* does t start with p
StartsWith(t, p) == Len(t) >= Len(p) /\ SubSeq(t, 1, Len(p)) = p

\* Python `p in t` for strings
RECURSIVE Contains(_, _)
Contains(t, p) ==
    IF Len(t) < Len(p) THEN FALSE
    ELSE IF StartsWith(t, p) THEN TRUE
    ELSE Contains(Tail(t), p)

\* Python t.replace(p, '') : every non-overlapping occurrence, left to right
RECURSIVE Remove(_, _)
Remove(t, p) ==
    IF t = <<>> THEN <<>>
    ELSE IF StartsWith(t, p) THEN Remove(SliceFrom(t, Len(p)), p)
    ELSE <<t[1]>> \o Remove(Tail(t), p)

\* Python t.split(c) for a one-character separator: a sequence of tuples
RECURSIVE SplitAcc(_, _, _)
SplitAcc(t, c, cur) ==
    IF t = <<>> THEN <<cur>>
    ELSE IF t[1] = c THEN <<cur>> \o SplitAcc(Tail(t), c, <<>>)
    ELSE SplitAcc(Tail(t), c, Append(cur, t[1]))

Split(t, c) == SplitAcc(t, c, <<>>)

Last(s) == s[Len(s)]

\* os.path.basename
Basename(t) == Last(Split(t, "/"))

DotXml == <<".", "x", "m", "l">>

(* ---------------- file name -> track code and race date --------------- *)

\* base_filename of process_xml_content
BaseFilename(filename) ==
    LET b == Remove(Basename(filename), DotXml)
    IN  IF Contains(b, <<":">>) THEN Last(Split(b, ":")) ELSE b

UNK == <<"U", "N", "K">>

\* `parts[1][:3] if len(parts) > 1 else 'UNK'`
TrackCodeAfterUnderscore(parts) ==
    IF Len(parts) > 1 THEN Slice(parts[2], 0, 3) ELSE UNK

\* track_code of process_xml_content, as characters
TrackCodeChars(filename) ==
    LET b == BaseFilename(filename)
    IN  IF Contains(b, <<"_">>)
        THEN TrackCodeAfterUnderscore(Split(b, "_"))
        ELSE IF Len(b) >= 15 THEN Slice(b, 12, 15) ELSE UNK

TrackCodeOf(filename) == Join(TrackCodeChars(filename))

\* date_str of process_xml_content (a tuple; <<>> stands for None and '')
DateStrOf(filename) ==
    LET b == BaseFilename(filename)
    IN  IF Contains(b, <<"_">>)
        THEN LET p0 == Split(b, "_")[1]
             IN  IF Len(p0) >= 12 THEN Slice(p0, 4, 12) ELSE <<>>
        ELSE IF Len(b) >= 15 THEN Slice(b, 4, 12) ELSE <<>>

\* race_date of process_xml_content: YYYYMMDD -> YYYY-MM-DD
RaceDateOf(filename) ==
    LET d == DateStrOf(filename)
    IN  IF d # <<>>
        THEN Join(Slice(d, 0, 4)) \o "-" \o Join(Slice(d, 4, 6)) \o "-"
                 \o Join(Slice(d, 6, 8))
        ELSE "2023-01-01"

\* race_id of extract_race_data (phase 2)
RaceIdPP(track_code, race_date, race_number) ==
    track_code \o "_" \o race_date \o "_" \o race_number

\* race_id of extract_race_updates / extract_entry_updates (phase 3)
RaceIdRC(track_code, race_date, race_number) ==
    track_code \o "_" \o race_date \o "_" \o race_number

\* entry_id of extract_entry_data and of extract_entry_updates
EntryId(race_id, registration_number) ==
    race_id \o "_" \o registration_number

(* ------------------- str.upper, float(), int() ------------------------ *)

\* str.upper of one character
UpperChar(c) ==
    CASE c = "a" -> "A" [] c = "b" -> "B" [] c = "c" -> "C" [] c = "d" -> "D"
      [] c = "e" -> "E" [] c = "f" -> "F" [] c = "g" -> "G" [] c = "h" -> "H"
      [] c = "i" -> "I" [] c = "j" -> "J" [] c = "k" -> "K" [] c = "l" -> "L"
      [] c = "m" -> "M" [] c = "n" -> "N" [] c = "o" -> "O" [] c = "p" -> "P"
      [] c = "q" -> "Q" [] c = "r" -> "R" [] c = "s" -> "S" [] c = "t" -> "T"
      [] c = "u" -> "U" [] c = "v" -> "V" [] c = "w" -> "W" [] c = "x" -> "X"
      [] c = "y" -> "Y" [] c = "z" -> "Z" [] OTHER -> c

\* str.upper
Upper(t) == [i \in 1..Len(t) |-> UpperChar(t[i])]

\* an argument that is None, as distinct from the empty text <<>>
NoText == <<None>>

(* A distance value is the text of a DistanceId: kind "digits" is a decimal  *)
(* whole number n with or without a sign, "inf" a text float() reads as      *)
(* infinity ("inf", "Infinity", "1e400"), "-inf" its negative, "nan" a text  *)
(* it reads as not-a-number, "word" any other text, "blank" white space      *)
(* only, "empty" the empty text and "None" no text at all.                   *)
Digits(n) == [kind |-> "digits", n |-> n]

Text(kind) == [kind |-> kind, n |-> 0]

\* float(str(distance_value).strip()): a number, or the ValueError it raises
float(t) ==
    CASE t.kind = "digits" -> [kind |-> "finite", n |-> t.n]
      [] t.kind \in {"inf", "-inf", "nan"} -> Text(t.kind)
      [] OTHER -> Text("ValueError")

\* comparisons of a float with a whole number (all false for nan)
FloatLt(x, c) == (x.kind = "finite" /\ x.n < c) \/ x.kind = "-inf"

FloatGt(x, c) == (x.kind = "finite" /\ x.n > c) \/ x.kind = "inf"

FloatGe(x, c) == (x.kind = "finite" /\ x.n >= c) \/ x.kind = "inf"

FloatLe(x, c) == (x.kind = "finite" /\ x.n <= c) \/ x.kind = "-inf"

\* what a call gives back: a value, None, or the exception that leaves it
Ret(n) == [ret |-> "value", n |-> n]

RetNone == [ret |-> "None", n |-> 0]

Raises(e) == [ret |-> e, n |-> 0]

\* int(y) of a float y that has the kind of x and, when x is finite, the whole
\* part n: int() of nan raises ValueError, of an infinity OverflowError
int(x, n) ==
    CASE x.kind = "finite" -> Ret(n)
      [] x.kind = "nan" -> Raises("ValueError")
      [] OTHER -> Raises("OverflowError")

\* `except (ValueError, TypeError): return None`
ExceptValueOrTypeError(r) ==
    IF r.ret \in {"ValueError", "TypeError"} THEN RetNone ELSE r

(* IEEE 754 double arithmetic of int(v / d * c) for whole numbers            *)
(* 0 < v < 2^24, d, c: the quotient v / d is rounded to 53 bits, the product *)
(* with c is rounded again, and int() cuts the fraction off. The exact       *)
(* value v * c / d is cut off unless it is whole and the two roundings end   *)
(* below it.                                                                *)

\* the largest j with 2^j * den <= num
RECURSIVE Log2Up(_, _)
Log2Up(num, den) == IF 2 * den <= num THEN 1 + Log2Up(num, 2 * den) ELSE 0

\* the smallest s >= 1 with num * 2^s >= den
RECURSIVE Log2Down(_, _)
Log2Down(num, den) == IF 2 * num >= den THEN 1 ELSE 1 + Log2Down(2 * num, den)

\* the binary exponent of num / den: floor(log2(num / den))
Log2Floor(num, den) == IF num >= den THEN Log2Up(num, den) ELSE 0 - Log2Down(num, den)

RECURSIVE Pow2(_)
Pow2(n) == IF n = 0 THEN 1 ELSE 2 * Pow2(n - 1)

\* 2^e modulo d
RECURSIVE Pow2Mod(_, _)
Pow2Mod(e, d) == IF e = 0 THEN 1 % d ELSE (2 * Pow2Mod(e - 1, d)) % d

\* the width of a double's significand, less one
MantissaBits == 52

\* int(v / d * c) as the double arithmetic computes it
FloatScaled(v, d, c) ==
    IF v <= 0 THEN 0
    ELSE LET N == (v * c) \div d
             j == Log2Floor(v, d)
             k == Log2Floor(v * c, d)
             e == MantissaBits - j
             \* what rounding v / d to its significand leaves out, in d-ths
             r == ((v % d) * Pow2Mod(e, d)) % d
             \* the quotient is rounded down (a tie goes to the even significand)
             down == \/ 2 * r < d
                     \/ 2 * r = d /\ ((v % (2 * d)) * Pow2Mod(e, 2 * d)) % (2 * d) < d
             lost == (IF \E i \in 0..30 : N = Pow2(i) THEN 4 ELSE 2) * c * r
         IN  IF (v * c) % d # 0 \/ r = 0 \/ ~down THEN N
             ELSE IF lost > d * Pow2(k - j) THEN N - 1
             ELSE N

(* --------------------------- parse_distance --------------------------- *)

FurlongUnits == {"F", "FURLONG", "FURLONGS"}
MileUnits == {"M", "MILE", "MILES"}
YardUnits == {"Y", "YARD", "YARDS"}

\* a unit inferred at 1000 and above
InferUnitYardsFrom1000(distance) ==
    IF FloatLt(distance, 20) THEN "F" ELSE IF FloatGe(distance, 1000) THEN "Y" ELSE "M"

\* parse_distance, `if not unit:` the unit the magnitude stands for
infer_unit(distance) ==
    IF FloatLt(distance, 20) THEN "F" ELSE IF FloatGt(distance, 1000) THEN "Y" ELSE "M"

\* parse_distance, the conversion to yards of a float under an upper-case unit
to_yards(distance, unit) ==
    IF unit \in FurlongUnits
    THEN IF FloatGe(distance, 100) THEN int(distance, FloatScaled(distance.n, 100, 220))
         ELSE int(distance, distance.n * 220)
    ELSE IF unit \in MileUnits
    THEN IF FloatGe(distance, 100) THEN int(distance, FloatScaled(distance.n, 1600, 1760))
         ELSE int(distance, distance.n * 1760)
    ELSE IF unit \in YardUnits THEN int(distance, distance.n)
    ELSE IF FloatLt(distance, 20) THEN int(distance, distance.n * 220)
    ELSE IF FloatGe(distance, 100) /\ FloatLe(distance, 1000)
    THEN int(distance, FloatScaled(distance.n, 100, 220))
    ELSE IF FloatGt(distance, 1000)
    THEN IF FloatGt(distance, 5000) THEN int(distance, distance.n \div 3)
         ELSE int(distance, distance.n)
    ELSE int(distance, distance.n * 220)

\* parse_distance of a distance value and a unit label (NoText when None)
parse_distance(distance_value, unit) ==
    IF distance_value.kind \in {"None", "empty"} THEN RetNone
    ELSE LET distance == float(distance_value)
         IN  IF distance.kind = "ValueError" THEN RetNone
             ELSE ExceptValueOrTypeError(
                      to_yards(distance,
                               IF unit = NoText \/ unit = <<>> THEN infer_unit(distance)
                               ELSE Join(Upper(unit))))

\* Python `x in s` for a list
InSeq(x, s) == \E i \in 1..Len(s) : s[i] = x

(* ------------------------ standardize_race_type ----------------------- *)

\* the characters str.strip and str.split take for white space
IsSpace(c) == c \in {" ", "\t", "\n"}

RECURSIVE LStrip(_)
LStrip(t) == IF t # <<>> /\ IsSpace(t[1]) THEN LStrip(Tail(t)) ELSE t

RECURSIVE RStrip(_)
RStrip(t) ==
    IF t # <<>> /\ IsSpace(t[Len(t)]) THEN RStrip(SubSeq(t, 1, Len(t) - 1)) ELSE t

\* str.strip
Strip(t) == RStrip(LStrip(t))

\* str.split(): the words between runs of white space
RECURSIVE SplitWordsAcc(_, _)
SplitWordsAcc(t, cur) ==
    IF t = <<>> THEN IF cur = <<>> THEN <<>> ELSE <<cur>>
    ELSE IF IsSpace(t[1])
    THEN (IF cur = <<>> THEN <<>> ELSE <<cur>>) \o SplitWordsAcc(Tail(t), <<>>)
    ELSE SplitWordsAcc(Tail(t), Append(cur, t[1]))

SplitWords(t) == SplitWordsAcc(t, <<>>)

\* self.race_type_hierarchy, in the order the dictionary is written and
\* iterated
race_type_hierarchy ==
    << [code |-> <<"G", "1">>, level |-> 10],
       [code |-> <<"G", "2">>, level |-> 9],
       [code |-> <<"G", "3">>, level |-> 8],
       [code |-> <<"G", "R", "1">>, level |-> 10],
       [code |-> <<"G", "R", "2">>, level |-> 9],
       [code |-> <<"G", "R", "3">>, level |-> 8],
       [code |-> <<"L">>, level |-> 7],
       [code |-> <<"L", "R">>, level |-> 7],
       [code |-> <<"L", "I", "S", "T", "E", "D">>, level |-> 7],
       [code |-> <<"S", "T", "K">>, level |-> 6],
       [code |-> <<"S", "T", "A", "K", "E", "S">>, level |-> 6],
       [code |-> <<"B", "T">>, level |-> 6],
       [code |-> <<"A", "L", "W">>, level |-> 5],
       [code |-> <<"A", "L", "L", "O", "W", "A", "N", "C", "E">>, level |-> 5],
       [code |-> <<"A", "O", "C">>, level |-> 5],
       [code |-> <<"N", "1", "X">>, level |-> 4],
       [code |-> <<"N", "2", "X">>, level |-> 3],
       [code |-> <<"C", "L", "M">>, level |-> 2],
       [code |-> <<"C", "L", "A", "I", "M", "I", "N", "G">>, level |-> 2],
       [code |-> <<"C", "L">>, level |-> 2],
       [code |-> <<"M", "S", "W">>, level |-> 1],
       [code |-> <<"M", "A", "I", "D", "E", "N">>, level |-> 1],
       [code |-> <<"M", "C", "L">>, level |-> 1],
       [code |-> <<"M", "A", "I", "D", "E", "N", " ", "C", "L", "A", "I", "M", "I", "N", "G">>, level |-> 1],
       [code |-> <<"M", "S", "P">>, level |-> 1],
       [code |-> <<"M", "A", "I", "D", "E", "N", " ", "S", "P", "E", "C", "I", "A", "L", " ", "W", "E", "I", "G", "H", "T">>, level |-> 1] >>

\* _get_purse_category
get_purse_category(class_level) ==
    IF class_level >= 8 THEN "GRADED_STAKES"
    ELSE IF class_level >= 6 THEN "STAKES"
    ELSE IF class_level >= 4 THEN "ALLOWANCE"
    ELSE IF class_level >= 2 THEN "CLAIMING"
    ELSE IF class_level = 1 THEN "MAIDEN"
    ELSE "UNKNOWN"

RaceType(code, description, level, purse) ==
    [race_type_code |-> code, race_type_description |-> description,
     class_level |-> level, purse_category |-> purse]


\* `'MAIDEN CLAIMING' in cleaned or 'MAIDEN CLM' in cleaned`
IsCompound(cleaned) ==
    \/ Contains(cleaned, <<"M", "A", "I", "D", "E", "N", " ", "C", "L", "A", "I", "M", "I", "N", "G">>)
    \/ Contains(cleaned, <<"M", "A", "I", "D", "E", "N", " ", "C", "L", "M">>)

\* the entries of race_type_hierarchy whose code is one of the words
TableMatches(words) ==
    {i \in 1..Len(race_type_hierarchy) : InSeq(race_type_hierarchy[i].code, words)}

\* the first entry of the table that matches
FirstMatch(words) == CHOOSE i \in TableMatches(words) : \A j \in TableMatches(words) : i <= j

\* the result of the loop over race_type_hierarchy when an entry matches
ByTable(words, description) ==
    RaceType(Join(race_type_hierarchy[FirstMatch(words)].code), description,
             race_type_hierarchy[FirstMatch(words)].level,
             get_purse_category(race_type_hierarchy[FirstMatch(words)].level))

\* a fallback chain that would look for the claiming keywords before the
\* maiden keywords
ByKeywordClaimingFirst(cleaned, description) ==
    IF Contains(cleaned, <<"C", "L", "A", "I", "M", "I", "N", "G">>)
       \/ Contains(cleaned, <<"C", "L", "M">>)
    THEN RaceType("CLAIMING", description, 2, "CLAIMING")
    ELSE IF Contains(cleaned, <<"M", "A", "I", "D", "E", "N">>)
            \/ Contains(cleaned, <<"M", "S", "W">>)
    THEN RaceType("MAIDEN", description, 1, "MAIDEN")
    ELSE IF Contains(cleaned, <<"A", "L", "L", "O", "W", "A", "N", "C", "E">>)
            \/ Contains(cleaned, <<"A", "L", "W">>)
    THEN RaceType("ALLOWANCE", description, 5, "ALLOWANCE")
    ELSE IF Contains(cleaned, <<"S", "T", "A", "K", "E", "S">>)
            \/ Contains(cleaned, <<"S", "T", "K">>)
    THEN RaceType("STAKES", description, 6, "STAKES")
    ELSE RaceType("OTHER", description, 3, "OTHER")

\* the fallback chain of keywords
ByKeyword(cleaned, description) ==
    IF Contains(cleaned, <<"M", "A", "I", "D", "E", "N">>)
       \/ Contains(cleaned, <<"M", "S", "W">>)
    THEN RaceType("MAIDEN", description, 1, "MAIDEN")
    ELSE IF Contains(cleaned, <<"C", "L", "A", "I", "M", "I", "N", "G">>)
            \/ Contains(cleaned, <<"C", "L", "M">>)
    THEN RaceType("CLAIMING", description, 2, "CLAIMING")
    ELSE IF Contains(cleaned, <<"A", "L", "L", "O", "W", "A", "N", "C", "E">>)
            \/ Contains(cleaned, <<"A", "L", "W">>)
    THEN RaceType("ALLOWANCE", description, 5, "ALLOWANCE")
    ELSE IF Contains(cleaned, <<"S", "T", "A", "K", "E", "S">>)
            \/ Contains(cleaned, <<"S", "T", "K">>)
    THEN RaceType("STAKES", description, 6, "STAKES")
    ELSE RaceType("OTHER", description, 3, "OTHER")

\* a classification that would look the words up in the table before it
\* looks for the compound phrase
StandardizeTableFirst(raw_value) ==
    IF raw_value = NoText \/ raw_value = <<>> \/ Strip(raw_value) = <<>>
    THEN RaceType("UNKNOWN", "Unknown", 0, "UNKNOWN")
    ELSE LET cleaned == Upper(Strip(raw_value))
             description == Join(Strip(raw_value))
         IN  IF TableMatches(SplitWords(cleaned)) # {}
             THEN ByTable(SplitWords(cleaned), description)
             ELSE IF IsCompound(cleaned)
             THEN RaceType("CLAIMING", description, 1, "MAIDEN")
             ELSE ByKeyword(cleaned, description)

\* standardize_race_type of a text (NoText when None)
standardize_race_type(raw_value) ==
    IF raw_value = NoText \/ raw_value = <<>> \/ Strip(raw_value) = <<>>
    THEN RaceType("UNKNOWN", "Unknown", 0, "UNKNOWN")
    ELSE LET cleaned == Upper(Strip(raw_value))
             description == Join(Strip(raw_value))
         IN  IF IsCompound(cleaned)
             THEN RaceType("CLAIMING", description, 1, "MAIDEN")
             ELSE IF TableMatches(SplitWords(cleaned)) # {}
             THEN ByTable(SplitWords(cleaned), description)
             ELSE ByKeyword(cleaned, description)

(* -------------------- standardize_sex_restrictions -------------------- *)

\* the flags with the given ones set
SexFlags(set) ==
    [f \in {"fillies_and_mares", "colts_and_geldings", "fillies_only",
            "mares_only", "colts_only", "geldings_only"} |-> f \in set]

\* the chain of tests, were each an `if` of its own
SexFlagsEachTested(cleaned) ==
    SexFlags({f \in {"fillies_and_mares"} :
                 Contains(cleaned, <<"F", "I", "L", "L", "I", "E", "S", " ", "A", "N", "D", " ", "M", "A", "R", "E", "S">>) \/ Contains(cleaned, <<"F", "&", "M">>)}
             \cup {f \in {"fillies_only"} :
                 Contains(cleaned, <<"F", "I", "L", "L", "I", "E", "S">>) /\ ~Contains(cleaned, <<"M", "A", "R", "E", "S">>)}
             \cup {f \in {"mares_only"} :
                 Contains(cleaned, <<"M", "A", "R", "E", "S">>) /\ ~Contains(cleaned, <<"F", "I", "L", "L", "I", "E", "S">>)}
             \cup {f \in {"colts_and_geldings"} : Contains(cleaned, <<"C", "O", "L", "T", "S", " ", "A", "N", "D", " ", "G", "E", "L", "D", "I", "N", "G", "S">>)}
             \cup {f \in {"colts_only"} :
                 Contains(cleaned, <<"C", "O", "L", "T", "S">>) /\ ~Contains(cleaned, <<"G", "E", "L", "D", "I", "N", "G", "S">>)}
             \cup {f \in {"geldings_only"} :
                 Contains(cleaned, <<"G", "E", "L", "D", "I", "N", "G", "S">>) /\ ~Contains(cleaned, <<"C", "O", "L", "T", "S">>)})

\* the if/elif chain over the upper-case text
SexFlagsOf(cleaned) ==
    IF Contains(cleaned, <<"F", "I", "L", "L", "I", "E", "S", " ", "A", "N", "D", " ", "M", "A", "R", "E", "S">>) \/ Contains(cleaned, <<"F", "&", "M">>)
    THEN SexFlags({"fillies_and_mares"})
    ELSE IF Contains(cleaned, <<"F", "I", "L", "L", "I", "E", "S">>) /\ ~Contains(cleaned, <<"M", "A", "R", "E", "S">>)
    THEN SexFlags({"fillies_only"})
    ELSE IF Contains(cleaned, <<"M", "A", "R", "E", "S">>) /\ ~Contains(cleaned, <<"F", "I", "L", "L", "I", "E", "S">>)
    THEN SexFlags({"mares_only"})
    ELSE IF Contains(cleaned, <<"C", "O", "L", "T", "S", " ", "A", "N", "D", " ", "G", "E", "L", "D", "I", "N", "G", "S">>)
    THEN SexFlags({"colts_and_geldings"})
    ELSE IF Contains(cleaned, <<"C", "O", "L", "T", "S">>) /\ ~Contains(cleaned, <<"G", "E", "L", "D", "I", "N", "G", "S">>)
    THEN SexFlags({"colts_only"})
    ELSE IF Contains(cleaned, <<"G", "E", "L", "D", "I", "N", "G", "S">>) /\ ~Contains(cleaned, <<"C", "O", "L", "T", "S">>)
    THEN SexFlags({"geldings_only"})
    ELSE SexFlags({})

\* standardize_sex_restrictions of a text (NoText when None)
standardize_sex_restrictions(raw_value) ==
    IF raw_value = NoText \/ raw_value = <<>> \/ Strip(raw_value) = <<>>
    THEN SexFlags({})
    ELSE SexFlagsOf(Upper(Strip(raw_value)))

(* ----------------------- standardize_equipment ------------------------ *)

\* equipment_mappings
EquipmentCodes ==
    {"B", "BLINKERS", "BF", "BL", "L", "L1", "L2", "LASIX", "SALIX", "T", "TT",
     "N", "NS", "S", "SR", "E", "EP", "H", "HOOD", "C", "CP"}

equipment_mappings(item) ==
    CASE item \in {"B", "BLINKERS"} -> "BLINKERS"
      [] item = "BF" -> "BLINKERS_FIRST_TIME"
      [] item = "BL" -> "BLINKERS_LASIX"
      [] item \in {"L", "LASIX", "SALIX"} -> "LASIX"
      [] item = "L1" -> "LASIX_FIRST_TIME"
      [] item = "L2" -> "LASIX_SECOND_TIME"
      [] item \in {"T", "TT"} -> "TONGUE_TIE"
      [] item \in {"N", "NS"} -> "NASAL_STRIP"
      [] item \in {"S", "SR"} -> "SHADOW_ROLL"
      [] item \in {"E", "EP"} -> "EAR_PLUGS"
      [] item \in {"H", "HOOD"} -> "HOOD"
      [] item \in {"C", "CP"} -> "CHEEK_PIECES"

\* standardize_equipment over the upper-case items the split has produced
RECURSIVE StdEquipAcc(_, _)
StdEquipAcc(items, acc) ==
    IF items = <<>> THEN acc
    ELSE LET item == Head(items)
         IN  IF item # "" /\ item \in EquipmentCodes
             THEN LET std == equipment_mappings(item)
                  IN  StdEquipAcc(Tail(items),
                                  IF InSeq(std, acc) THEN acc ELSE Append(acc, std))
             ELSE IF item # "" THEN StdEquipAcc(Tail(items), Append(acc, item))
             ELSE StdEquipAcc(Tail(items), acc)

standardize_equipment(items) == StdEquipAcc(items, <<>>)

\* re.split(r'[,;/\s]+', text): the pieces between runs of delimiters, the
\* empty piece before a leading and after a trailing run included
RECURSIVE SplitItemsAcc(_, _, _)
SplitItemsAcc(t, cur, inRun) ==
    IF t = <<>> THEN <<Join(cur)>>
    ELSE IF t[1] \in {",", ";", "/"} \/ IsSpace(t[1])
    THEN (IF inRun THEN <<>> ELSE <<Join(cur)>>) \o SplitItemsAcc(Tail(t), <<>>, TRUE)
    ELSE SplitItemsAcc(Tail(t), Append(cur, t[1]), FALSE)

\* standardize_equipment of a text (NoText when None)
standardize_equipment_string(equipment_string) ==
    IF equipment_string = NoText \/ equipment_string = <<>>
       \/ Strip(equipment_string) = <<>>
    THEN <<>>
    ELSE standardize_equipment(SplitItemsAcc(Upper(Strip(equipment_string)), <<>>, FALSE))

\* create_standardized_horse_features, from the two lists that
\* standardize_equipment returns for the equipment and for the medication;
\* no weight is given
create_standardized_horse_features(equipment_list, medication_list) ==
    [equipment_codes |-> equipment_list,
     has_blinkers |-> InSeq("BLINKERS", equipment_list),
     has_lasix |-> InSeq("LASIX", medication_list) \/ InSeq("LASIX", equipment_list),
     has_tongue_tie |-> InSeq("TONGUE_TIE", equipment_list),
     has_nasal_strip |-> InSeq("NASAL_STRIP", equipment_list),
     weight_lbs |-> NoNum,
     medication_codes |-> medication_list]

\* dict.get(key, default)
Get(rec, key, default) == IF key \in DOMAIN rec THEN rec[key] ELSE default

(* ----------------------------- documents ------------------------------ *)

PPDir == <<"2", "0", "2", "3", " ", "P", "P", "s", "/">>
SIMD == <<"S", "I", "M", "D">>
UsaXml == <<"_", "U", "S", "A", ".", "x", "m", "l">>

\* the date YYYY-MM-DD (a string triple) as the eight digits of a file name
DateDigits(y, m, d) == y \o m \o d
DateText(y, m, d) == Join(y) \o "-" \o Join(m) \o "-" \o Join(d)

Y2023 == <<"2", "0", "2", "3">>
M01 == <<"0", "1">>
D01 == <<"0", "1">>
D02 == <<"0", "2">>

\* a pre-race file of track `track` and date y-m-d, as the feed names it
PPName(y, m, d, track, suffix) == PPDir \o SIMD \o DateDigits(y, m, d) \o track \o suffix

NoStarter == [horse |-> FALSE, reg |-> None, name |-> None, yob |-> NoNum,
              trainer |-> None, owner |-> None, equipment |-> <<>>]

\* Documents. track and date are what a document is about; the pre-race
\* extractors read them from the file name only.
PP_AQU ==
    [name |-> PPName(Y2023, M01, D01, <<"A", "Q", "U">>, UsaXml),
     track |-> "AQU", date |-> DateText(Y2023, M01, D01),
     wellformed |-> TRUE, readable |-> TRUE,
     races |-> << [number |-> "3", distance |-> 600, unit |-> <<"F">>,
                   starters |-> << [horse |-> TRUE, reg |-> "H1", name |-> "Alpha",
                                    yob |-> 2019, trainer |-> "T1", owner |-> "O1",
                                    equipment |-> <<"B", "L1", "SR">>] >>] >>]

PP_GP ==
    [name |-> PPName(Y2023, M01, D01, <<"G", "P">>, UsaXml),
     track |-> "GP", date |-> DateText(Y2023, M01, D01),
     wellformed |-> TRUE, readable |-> TRUE,
     races |-> << [number |-> "3", distance |-> 2400, unit |-> <<"M">>,
                   starters |-> << [horse |-> TRUE, reg |-> "H2", name |-> "Bravo",
                                    yob |-> 2020, trainer |-> "T1", owner |-> None,
                                    equipment |-> <<>>] >>] >>]

\* a file named without the _USA suffix; it gives horse H1 another year of
\* birth than the file of AQU does, and its second starter has no
\* registration number
PP_BEL ==
    [name |-> PPName(Y2023, M01, D02, <<"B", "E", "L">>, DotXml),
     track |-> "BEL", date |-> DateText(Y2023, M01, D02),
     wellformed |-> TRUE, readable |-> TRUE,
     races |-> << [number |-> "1", distance |-> 6, unit |-> NoText,
                   starters |-> << [horse |-> TRUE, reg |-> "H1", name |-> "Alpha",
                                    yob |-> 2018, trainer |-> None, owner |-> None,
                                    equipment |-> <<>>],
                                   [NoStarter EXCEPT !.horse = TRUE] >>] >>]

\* a file that is not well-formed XML
PP_SA ==
    [name |-> PPName(Y2023, M01, D02, <<"S", "A">>, UsaXml),
     track |-> "SA", date |-> DateText(Y2023, M01, D02),
     wellformed |-> FALSE, readable |-> TRUE,
     races |-> << >>]

\* a second file that is not well-formed XML
PP_CD ==
    [name |-> PPName(Y2023, M01, D02, <<"C", "D">>, UsaXml),
     track |-> "CD", date |-> DateText(Y2023, M01, D02),
     wellformed |-> FALSE, readable |-> TRUE,
     races |-> << >>]

\* a file that cannot be opened or decoded
PP_KEE ==
    [name |-> PPName(Y2023, M01, D02, <<"K", "E", "E">>, UsaXml),
     track |-> "KEE", date |-> DateText(Y2023, M01, D02),
     wellformed |-> TRUE, readable |-> FALSE,
     races |-> << >>]

RCDir == <<"2", "0", "2", "3", " ", "R", "e", "s", "u", "l", "t", " ",
           "C", "h", "a", "r", "t", "s", "/">>

RCName(y, m, d, track) == RCDir \o track \o DateDigits(y, m, d) \o <<"t", "c", "h">> \o DotXml

\* in the first race of this chart the entry of a horse that no pre-race file
\* names comes before the entry of a known horse
RC_BEL ==
    [name |-> RCName(Y2023, M01, D02, <<"b", "e", "l">>),
     track |-> "BEL", date |-> DateText(Y2023, M01, D02),
     wellformed |-> TRUE, readable |-> TRUE,
     races |-> << [number |-> "1", win_time |-> 70, fractions |-> <<23>>,
                   entries |-> << [name |-> "Zulu", fin |-> 2,
                                   calls |-> << [which |-> "1", position |-> 2] >>],
                                  [name |-> "Alpha", fin |-> 1,
                                   calls |-> << [which |-> "FINAL", position |-> 1] >>] >>],
                  [number |-> "2", win_time |-> NoNum, fractions |-> <<>>,
                   entries |-> << [name |-> "Alpha", fin |-> 3, calls |-> <<>>] >>] >>]

RC_AQU ==
    [name |-> RCName(Y2023, M01, D01, <<"a", "q", "u">>),
     track |-> "AQU", date |-> DateText(Y2023, M01, D01),
     wellformed |-> TRUE, readable |-> TRUE,
     races |-> << [number |-> "3", win_time |-> NoNum, fractions |-> <<>>,
                   entries |-> << [name |-> "Alpha", fin |-> 2, calls |-> <<>>] >>] >>]

\* a chart whose CHART element has no RACE_DATE attribute
RC_NODATE ==
    [name |-> RCName(Y2023, M01, D01, <<"g", "p">>),
     track |-> "GP", date |-> None,
     wellformed |-> TRUE, readable |-> TRUE,
     races |-> << [number |-> "3", win_time |-> 71, fractions |-> <<>>,
                   entries |-> << [name |-> "Bravo", fin |-> 1, calls |-> <<>>] >>] >>]

(* An execution: the phase runs it makes, in order, and the files of the    *)
(* two directories ("2023 PPs", "2023 Result Charts") as get_xml_files       *)
(* lists them.                                                             *)
Scenarios == {"pipeline", "rerun", "prerace", "results", "damaged"}

\* run_full_pipeline; extract_horses run twice and then extract_result_charts;
\* extract_past_performance run on its own; run_full_pipeline with no file in
\* "2023 PPs"; extract_horses run over damaged files
PlanOf(sc) ==
    CASE sc = "pipeline" -> <<1, 2, 3>>
      [] sc = "rerun" -> <<1, 1, 3>>
      [] sc = "prerace" -> <<2>>
      [] sc = "results" -> <<1, 2, 3>>
      [] sc = "damaged" -> <<1>>

PPDocs(sc) ==
    CASE sc = "pipeline" -> <<PP_AQU, PP_GP, PP_BEL>>
      [] sc = "rerun" -> <<PP_AQU, PP_GP>>
      [] sc = "prerace" -> <<PP_SA, PP_BEL>>
      [] sc = "results" -> <<>>
      [] sc = "damaged" -> <<PP_SA, PP_CD, PP_KEE>>

RCDocs(sc) ==
    CASE sc \in {"pipeline", "results"} -> <<RC_BEL, RC_AQU>>
      [] sc = "rerun" -> <<RC_NODATE>>
      [] OTHER -> <<>>

\* get_xml_files of the phase's directory
get_xml_files(sc, p) == IF p = 3 THEN RCDocs(sc) ELSE PPDocs(sc)

(* -------------------------- record extraction ------------------------ *)

\* the concatenation of a sequence of sequences
RECURSIVE Flatten(_)
Flatten(ss) == IF ss = <<>> THEN <<>> ELSE Head(ss) \o Flatten(Tail(ss))

\* str() of a value inside an f-string
Fmt(x) == IF x = None THEN "None" ELSE x

(* An extractor that returns a record or None is modelled as returning a     *)
(* sequence: <<record>> or <<>>.                                           *)

\* extract_horse_data (None without a registration number)
extract_horse_data(st) ==
    IF st.reg = None THEN <<>>
    ELSE << [registration_number |-> st.reg, horse_name |-> st.name,
             year_of_birth |-> st.yob] >>

\* extract_trainer_data / extract_owner_data (None without an ExternalPartyId)
extract_party_data(id) ==
    IF id = None THEN <<>> ELSE << [external_party_id |-> id] >>

\* extract_text of Distance/DistanceId, for a document's distance
DistanceId(v) == IF v = NoNum THEN Text("None") ELSE Digits(v)

\* extract_race_data (None without a race number, and when the standardizer
\* raises)
extract_race_data(race, track_code, race_date, filename) ==
    IF race.number = None
       \/ parse_distance(DistanceId(race.distance), race.unit).ret \notin {"value", "None"}
    THEN <<>>
    ELSE << [race_id |-> RaceIdPP(track_code, race_date, race.number),
             track_code |-> track_code, race_date |-> race_date,
             race_number |-> race.number,
             distance_yards |->
                 IF parse_distance(DistanceId(race.distance), race.unit).ret = "value"
                 THEN parse_distance(DistanceId(race.distance), race.unit).n
                 ELSE NoNum,
             winning_time |-> NoNum,
             source_file |-> Join(filename)] >>

\* extract_entry_data, with the source_file process_xml_content sets
extract_entry_data(st, race_id, filename) ==
    IF ~st.horse \/ st.reg = None THEN <<>>
    ELSE LET horse_features ==
                 create_standardized_horse_features(standardize_equipment(st.equipment),
                                                    standardize_equipment(<<>>))
         IN  << [entry_id |-> EntryId(race_id, st.reg), race_id |-> race_id,
                 race_track |-> TrackCodeChars(filename),
                 registration_number |-> st.reg,
                 equipment_codes |-> horse_features.equipment_codes,
                 has_blinkers |-> horse_features.has_blinkers,
                 has_lasix |-> horse_features.has_lasix,
                 has_tongue_tie |-> horse_features.has_tongue_tie,
                 has_nasal_strip |-> horse_features.has_nasal_strip,
                 official_finish_position |-> NoNum,
                 source_file |-> Join(filename)] >>

\* extract_equipment_records; race_track is race_id.split('_')[0] as characters
extract_equipment_records(entry_data) ==
    [i \in 1..Len(entry_data.equipment_codes) |->
        [race_id |-> entry_data.race_id,
         race_track |-> entry_data.race_track,
         registration_number |-> entry_data.registration_number,
         equipment_code |-> entry_data.equipment_codes[i]]]

\* get_fraction_distance
get_fraction_distance(i) ==
    CASE i = 1 -> 440 [] i = 2 -> 880 [] i = 3 -> 1320 [] i = 4 -> 1760
      [] i = 5 -> 2200 [] OTHER -> NoNum

\* extract_race_fractions
extract_race_fractions(race, race_id) ==
    [i \in 1..Len(race.fractions) |->
        [race_id |-> race_id, call_position |-> i,
         distance_yards |-> get_fraction_distance(i),
         fraction_time |-> race.fractions[i]]]

\* a lookup that would take the name itself for the key of a horse it has
\* not found
LookupFallsBackToName(horses, horse_name) ==
    LET named == {h \in horses : h.horse_name = horse_name}
    IN  IF named = {} THEN horse_name
        ELSE (CHOOSE h \in named :
                 \A g \in named : g.year_of_birth <= h.year_of_birth).registration_number

\* map_call_position, for a label of one character or FINAL
map_call_position(which_call) ==
    CASE which_call = "1" -> 1 [] which_call = "2" -> 2 [] which_call = "3" -> 3
      [] which_call = "4" -> 4 [] which_call = "5" -> 5 [] which_call = "FINAL" -> 6
      [] which_call = "6" -> 6 [] which_call = "7" -> 7 [] which_call = "8" -> 8
      [] which_call = "9" -> 9 [] OTHER -> 0

\* extract_position_calls: the calls of one entry that have a label and a position
extract_position_calls(entry, race_id, registration_number) ==
    LET call(c) ==
            IF c.which = None \/ c.position = NoNum THEN <<>>
            ELSE << [race_id |-> race_id, registration_number |-> registration_number,
                     call_position |-> map_call_position(c.which),
                     position |-> c.position] >>
    IN  Flatten([i \in DOMAIN entry.calls |-> call(entry.calls[i])])

\* lookup_registration_number: newest horse of that name, None when there is none
lookup_registration_number(horses, horse_name) ==
    LET named == {h \in horses : h.horse_name = horse_name}
    IN  IF named = {} THEN None
        ELSE (CHOOSE h \in named :
                 \A g \in named : g.year_of_birth <= h.year_of_birth).registration_number

(* --------------------- a worker's run over one file ------------------- *)
(* process_xml_content as the sequence of its operations on the shared     *)
(* lists and dictionaries. check: `key not in seen`, which skips the next  *)
(* `skip` operations when the key is there; append: list.append or         *)
(* list.extend of recs, counted in the local counter cnt; mark:            *)
(* seen[key] = True; err_read, err_write: the two halves of               *)
(* stats['errors'] += 1 outside the lock; lock_err_read, lock_err_write:   *)
(* the same two halves in process_file's `with self.lock:`.                *)

Ins(op, kind, key, recs, skip, cnt) ==
    [op |-> op, kind |-> kind, key |-> key, recs |-> recs, skip |-> skip, cnt |-> cnt]

ErrorIns == << Ins("err_read", None, None, <<>>, 0, None),
               Ins("err_write", None, None, <<>>, 0, None) >>

\* process_file's `except Exception:` branch: `with self.lock: errors += 1`
LockedErrorIns == << Ins("lock_err_read", None, None, <<>>, 0, None),
                     Ins("lock_err_write", None, None, <<>>, 0, None) >>

\* `if data and key not in seen: batch.append(data); seen[key] = True; n += 1`
\* a claim whose failed test would skip the append and the mark but not what
\* is nested under it
ClaimInsNestedAlways(kind, key, rec, cnt, after) ==
    << Ins("check", kind, key, <<>>, 2, None),
       Ins("append", kind, key, <<rec>>, 0, cnt),
       Ins("mark", kind, key, <<>>, 0, None) >> \o after

ClaimIns(kind, key, rec, cnt, after) ==
    << Ins("check", kind, key, <<>>, 2 + Len(after), None),
       Ins("append", kind, key, <<rec>>, 0, cnt),
       Ins("mark", kind, key, <<>>, 0, None) >> \o after

\* HorseExtractor.process_xml_content
Program1(doc) ==
    IF ~doc.wellformed THEN ErrorIns
    ELSE LET starter(st) ==
                 (IF st.horse /\ extract_horse_data(st) # <<>>
                  THEN ClaimIns("horses", st.reg, extract_horse_data(st)[1],
                                "horses_extracted", <<>>)
                  ELSE <<>>)
                 \o (IF extract_party_data(st.trainer) # <<>>
                     THEN ClaimIns("trainers", st.trainer, extract_party_data(st.trainer)[1],
                                   "trainers_extracted", <<>>)
                     ELSE <<>>)
                 \o (IF extract_party_data(st.owner) # <<>>
                     THEN ClaimIns("owners", st.owner, extract_party_data(st.owner)[1],
                                   "owners_extracted", <<>>)
                     ELSE <<>>)
             race(r) == Flatten([i \in DOMAIN r.starters |-> starter(r.starters[i])])
         IN  Flatten([i \in DOMAIN doc.races |-> race(doc.races[i])])

\* PastPerformanceExtractor.process_xml_content
Program2(doc) ==
    IF ~doc.wellformed THEN ErrorIns
    ELSE LET track_code == TrackCodeOf(doc.name)
             race_date == RaceDateOf(doc.name)
             race(r) ==
                 LET race_data == extract_race_data(r, track_code, race_date, doc.name)
                     starter(st) ==
                         LET entry_data == extract_entry_data(st, race_data[1].race_id, doc.name)
                         IN  IF entry_data = <<>> THEN <<>>
                             ELSE << Ins("append", "entries", entry_data[1].entry_id,
                                         entry_data, 0, "entries_extracted") >>
                                  \o (IF extract_equipment_records(entry_data[1]) = <<>>
                                      THEN <<>>
                                      ELSE << Ins("append", "equipment", entry_data[1].entry_id,
                                                  extract_equipment_records(entry_data[1]),
                                                  0, None) >>)
                 IN  IF race_data = <<>> THEN <<>>
                     ELSE ClaimIns("races", race_data[1].race_id, race_data[1],
                                   "races_extracted",
                                   Flatten([i \in DOMAIN r.starters |->
                                               starter(r.starters[i])]))
         IN  Flatten([i \in DOMAIN doc.races |-> race(doc.races[i])])

\* extract_race_updates: the race updates of a chart
race_updates_of(doc) ==
    LET race(r) ==
            IF r.number = None THEN <<>>
            ELSE << [race_id |-> RaceIdRC(doc.track, doc.date, r.number),
                     winning_time |-> r.win_time] >>
    IN  Flatten([i \in DOMAIN doc.races |-> race(doc.races[i])])

\* extract_entry_updates: the entry updates of a chart, by name lookup
entry_updates_of(doc, horses) ==
    LET race(r) ==
            LET race_id == RaceIdRC(Fmt(doc.track), Fmt(doc.date), Fmt(r.number))
                entry(e) ==
                    LET registration_number == lookup_registration_number(horses, e.name)
                    IN  IF e.name = None \/ registration_number = None THEN <<>>
                        ELSE << [entry_id |-> EntryId(race_id, registration_number),
                                 race_id |-> race_id,
                                 registration_number |-> registration_number,
                                 official_finish_position |-> e.fin] >>
            IN  Flatten([i \in DOMAIN r.entries |-> entry(r.entries[i])])
    IN  Flatten([i \in DOMAIN doc.races |-> race(doc.races[i])])

\* extract_entry_updates: self.position_calls_batch.extend(position_calls) of
\* each entry whose horse was found and that has position calls
position_calls_of(doc, horses) ==
    LET race(r) ==
            LET race_id == RaceIdRC(Fmt(doc.track), Fmt(doc.date), Fmt(r.number))
                entry(e) ==
                    LET registration_number == lookup_registration_number(horses, e.name)
                    IN  IF e.name = None \/ registration_number = None
                           \/ extract_position_calls(e, race_id, registration_number) = <<>>
                        THEN <<>>
                        ELSE << Ins("append", "position_calls", None,
                                    extract_position_calls(e, race_id, registration_number),
                                    0, None) >>
            IN  Flatten([i \in DOMAIN r.entries |-> entry(r.entries[i])])
    IN  Flatten([i \in DOMAIN doc.races |-> race(doc.races[i])])

\* ResultChartExtractor.process_xml_content
Program3(doc, horses) ==
    IF ~doc.wellformed THEN ErrorIns
    ELSE LET fractions(r) ==
                 IF r.number = None
                    \/ extract_race_fractions(r, RaceIdRC(doc.track, doc.date, r.number)) = <<>>
                 THEN <<>>
                 ELSE << Ins("append", "fractions", None,
                             extract_race_fractions(r, RaceIdRC(doc.track, doc.date, r.number)),
                             0, None) >>
         IN  (IF doc.date = None \/ doc.track = None THEN <<>>
              ELSE Flatten([i \in DOMAIN doc.races |-> fractions(doc.races[i])])
                   \o (IF race_updates_of(doc) = <<>> THEN <<>>
                       ELSE << Ins("append", "race_updates", None, race_updates_of(doc),
                                   0, "races_updated") >>))
             \o position_calls_of(doc, horses)
             \o (IF entry_updates_of(doc, horses) = <<>> THEN <<>>
                 ELSE << Ins("append", "entry_updates", None, entry_updates_of(doc, horses),
                             0, "entries_updated") >>)

\* process_file: when the file cannot be read, process_xml_content is not called
Program(p, doc, horses) ==
    IF ~doc.readable THEN LockedErrorIns
    ELSE CASE p = 1 -> Program1(doc)
           [] p = 2 -> Program2(doc)
           [] p = 3 -> Program3(doc, horses)

(* ------------------------------ storage ------------------------------- *)

Tables == {"horses", "trainers", "owners", "races", "entries", "equipment",
           "wagering", "fractions", "position_calls"}

\* the natural key of a row of each table
NaturalKey(table, row) ==
    CASE table = "horses" -> row.registration_number
      [] table \in {"trainers", "owners"} -> row.external_party_id
      [] table = "races" -> row.race_id
      [] table = "entries" -> row.entry_id
      [] table = "equipment" ->
             <<row.race_id, row.registration_number, row.equipment_code>>
      [] table = "fractions" -> <<row.race_id, row.call_position>>
      [] OTHER -> row

\* the columns an INSERT statement takes from a batch record
RowOf(table, rec) ==
    CASE table = "entries" ->
             [entry_id |-> rec.entry_id, race_id |-> rec.race_id,
              registration_number |-> rec.registration_number,
              has_blinkers |-> Get(rec, "has_blinkers", FALSE),
              has_lasix |-> Get(rec, "has_lasix", FALSE),
              has_tongue_tie |-> Get(rec, "has_tongue_tie", FALSE),
              has_nasal_strip |-> Get(rec, "has_nasal_strip", FALSE),
              has_shadow_roll |-> Get(rec, "has_shadow_roll", FALSE),
              has_cheek_pieces |-> Get(rec, "has_cheek_pieces", FALSE),
              has_ear_plugs |-> Get(rec, "has_ear_plugs", FALSE),
              has_hood |-> Get(rec, "has_hood", FALSE),
              official_finish_position |-> rec.official_finish_position,
              source_file |-> rec.source_file]
      [] table = "equipment" ->
             [race_id |-> rec.race_id, registration_number |-> rec.registration_number,
              equipment_code |-> rec.equipment_code]
      [] OTHER -> rec

\* INSERT OR IGNORE of one row
InsertOrIgnore(table, rows, row) ==
    IF \E r \in rows : NaturalKey(table, r) = NaturalKey(table, row)
    THEN rows
    ELSE rows \cup {row}

\* cursor.executemany of an INSERT OR IGNORE over the records of a batch
RECURSIVE InsertAll(_, _, _)
InsertAll(table, rows, recs) ==
    IF recs = <<>> THEN rows
    ELSE InsertAll(table, InsertOrIgnore(table, rows, RowOf(table, Head(recs))), Tail(recs))

\* UPDATE races_standardized SET ... WHERE race_id = ?
UpdateRace(rows, u) ==
    {IF r.race_id = u.race_id THEN [r EXCEPT !.winning_time = u.winning_time] ELSE r :
        r \in rows}

\* an update of entries that would insert a row when none has the entry_id
UpdateEntryOrInsert(rows, u) ==
    IF \E r \in rows : r.entry_id = u.entry_id
    THEN {IF r.entry_id = u.entry_id
          THEN [r EXCEPT !.official_finish_position = u.official_finish_position]
          ELSE r : r \in rows}
    ELSE rows \cup {u}

\* UPDATE race_entries_standardized SET ... WHERE entry_id = ?
UpdateEntry(rows, u) ==
    {IF r.entry_id = u.entry_id
     THEN [r EXCEPT !.official_finish_position = u.official_finish_position]
     ELSE r : r \in rows}

\* cursor.executemany of the UPDATE statements over a batch of updates
RECURSIVE UpdateRaces(_, _)
UpdateRaces(rows, ups) ==
    IF ups = <<>> THEN rows ELSE UpdateRaces(UpdateRace(rows, Head(ups)), Tail(ups))

RECURSIVE UpdateEntries(_, _)
UpdateEntries(rows, ups) ==
    IF ups = <<>> THEN rows ELSE UpdateEntries(UpdateEntry(rows, Head(ups)), Tail(ups))

\* the rows the UPDATE statements of a flush change (the sum of their rowcounts)
RECURSIVE RowCount(_, _, _)
RowCount(rows, ups, field) ==
    IF ups = <<>> THEN 0
    ELSE Cardinality({r \in rows : r[field] = Head(ups)[field]})
         + RowCount(rows, Tail(ups), field)

(* ------------------------------- phases ------------------------------- *)

\* the batches of a phase's extractor, in the order a flush reads them and the
\* threshold branch clears them; the first is the one the threshold looks at
Kinds(p) ==
    CASE p = 1 -> <<"horses", "trainers", "owners">>
      [] p = 2 -> <<"races", "entries", "equipment">>
      [] p = 3 -> <<"race_updates", "entry_updates", "wagering", "fractions",
                    "position_calls">>

KindSet(p) == {Kinds(p)[i] : i \in 1..Len(Kinds(p))}

\* the seen-dictionaries of a phase's extractor
SeenKinds(p) ==
    CASE p = 1 -> {"horses", "trainers", "owners"}
      [] p = 2 -> {"races"}
      [] p = 3 -> {}

\* self.stats of a phase's extractor
StatKeys(p) ==
    CASE p = 1 -> {"files_processed", "horses_extracted", "trainers_extracted",
                   "owners_extracted", "errors", "duplicates_skipped"}
      [] p = 2 -> {"files_processed", "races_extracted", "entries_extracted",
                   "equipment_records", "errors"}
      [] p = 3 -> {"files_processed", "races_updated", "entries_updated",
                   "wagering_records", "fraction_records", "errors"}

\* the counts process_xml_content returns
Counters(p) ==
    CASE p = 1 -> {"horses_extracted", "trainers_extracted", "owners_extracted"}
      [] p = 2 -> {"races_extracted", "entries_extracted"}
      [] p = 3 -> {"races_updated", "entries_updated"}

\* INSERT OR REPLACE of the records of a batch: a row with the key of a new
\* one gives way to it
RECURSIVE ReplaceAll(_, _, _)
ReplaceAll(table, rows, recs) ==
    IF recs = <<>> THEN rows
    ELSE ReplaceAll(table,
                    {r \in rows : NaturalKey(table, r)
                                     # NaturalKey(table, RowOf(table, Head(recs)))}
                        \cup {RowOf(table, Head(recs))},
                    Tail(recs))

\* a flush whose INSERT statements would replace the rows they find
ExecuteOrReplace(k, st, recs) ==
    CASE k = "race_updates" -> [st EXCEPT !.races = UpdateRaces(@, recs)]
      [] k = "entry_updates" -> [st EXCEPT !.entries = UpdateEntries(@, recs)]
      [] OTHER -> [st EXCEPT ![k] = ReplaceAll(k, @, recs)]

\* the statements a flush executes for one batch, inside its transaction
Execute(k, st, recs) ==
    CASE k = "race_updates" -> [st EXCEPT !.races = UpdateRaces(@, recs)]
      [] k = "entry_updates" -> [st EXCEPT !.entries = UpdateEntries(@, recs)]
      [] OTHER -> [st EXCEPT ![k] = InsertAll(k, @, recs)]

\* a transaction that would leave the statements it has executed in the tables
KeepsPartialWrites(st, t) == t

\* conn.rollback(): the tables are as they were before the transaction
RolledBack(st, t) == st

\* what one successful transaction of a phase's flush does to storage
Commit(p, st, sn) ==
    CASE p = 1 ->
             [st EXCEPT !.horses = InsertAll("horses", @, sn.horses),
                        !.trainers = InsertAll("trainers", @, sn.trainers),
                        !.owners = InsertAll("owners", @, sn.owners)]
      [] p = 2 ->
             [st EXCEPT !.races = InsertAll("races", @, sn.races),
                        !.entries = InsertAll("entries", @, sn.entries),
                        !.equipment = InsertAll("equipment", @, sn.equipment)]
      [] p = 3 ->
             [st EXCEPT !.races = UpdateRaces(@, sn.race_updates),
                        !.entries = UpdateEntries(@, sn.entry_updates),
                        !.wagering = InsertAll("wagering", @, sn.wagering),
                        !.fractions = InsertAll("fractions", @, sn.fractions),
                        !.position_calls =
                            InsertAll("position_calls", @, sn.position_calls)]

(* ------------------------------- state -------------------------------- *)

VARIABLES
    scenario,    \* the execution: its phase runs and its two directories
    run,         \* index in plan of the current phase run
    mainPc,      \* where the main thread is in run_extraction
    fut,         \* the index i of `for i, future in enumerate(futures)`
    kidx,        \* the batch a flush is reading / the threshold branch is clearing
    final,       \* the flush in progress is the final one of the phase
    queue,       \* submitted files no worker has taken yet
    finished,    \* files whose future is done
    wk,          \* the pool's threads: file, operations, position, local counts
    seen,        \* self.seen_* of the current extractor
    batch,       \* self.*_batch / self.*_updates of the current extractor
    snap,        \* what the flush in progress has read of each batch
    store,       \* the database tables
    tx,          \* the tables as the open transaction of a flush sees them
    stats,       \* self.stats of the current extractor
    lock,        \* the thread inside `with self.lock:`, 0 when the lock is free
    flushActive, \* calls of batch_insert_data / batch_update_data not yet returned
    failures,    \* transactions rolled back so far
    failedRun,   \* a transaction of the current run was rolled back
    emitted,     \* how often each (kind, key) was appended to a batch in this run
    appended,    \* the (kind, key) pairs appended to a batch in this run
    handed,      \* the (kind, key) pairs a flush of this run has read
    rowsChanged, \* rows the UPDATE statements of this run have changed
    endStore,    \* the tables as each finished run left them
    endFailed,   \* for each finished run, whether it failed (no file, or a failed flush)
    norm         \* the call of a standardizer function: its arguments and its outcome

\* the state of the extraction
pipelineVars == <<scenario, run, mainPc, fut, kidx, final, queue, finished, wk, seen, batch,
                  snap, store, tx, stats, lock, flushActive, failures, failedRun, emitted, appended,
                  handed, rowsChanged, endStore, endFailed>>

vars == <<pipelineVars, norm>>

Workers == 1..NumWorkers

plan == PlanOf(scenario)

Phase == plan[run]

Docs == get_xml_files(scenario, Phase)

Idle == [doc |-> 0, prog |-> <<>>, ip |-> 1, cnt |-> <<>>, err |-> 0]

EmptyStore == [t \in Tables |-> {}]

\* no call of the standardizer under way
NoCall ==
    [fn |-> "none", value |-> Text("None"), unit |-> NoText, text |-> NoText,
     medication |-> NoText, out |-> RetNone, pc |-> "idle"]

Init ==
    /\ norm = NoCall
    /\ scenario \in Scenarios
    /\ run = 1
    /\ mainPc = "start"
    /\ fut = 1
    /\ kidx = 1
    /\ final = FALSE
    /\ queue = <<>>
    /\ finished = {}
    /\ wk = [w \in Workers |-> Idle]
    /\ seen = <<>>
    /\ batch = <<>>
    /\ snap = <<>>
    /\ store = EmptyStore
    /\ tx = <<>>
    /\ stats = <<>>
    /\ lock = 0
    /\ flushActive = 0
    /\ failures = 0
    /\ failedRun = FALSE
    /\ emitted = <<>>
    /\ appended = {}
    /\ handed = {}
    /\ rowsChanged = [races |-> 0, entries |-> 0]
    /\ endStore = <<>>
    /\ endFailed = <<>>

(* ----------------------------- main thread ---------------------------- *)

\* a main thread that would go on with its loop while the flush it has started
\* is still running
FlushDetachedPc == "check"

\* where the main thread is once it has called batch_insert_data: inside it
FlushCallPc == "flush"

\* where run_extraction is after `if not xml_files: ... return`
NoFilesWaitPc == "wait"

NoFilesPc == "failed"

\* a loop that would be left when its first future has been collected
LeavesLoopEarly(i) == "final"

\* after future i: the next future, or the end of the loop
AfterFuture(i) == IF i + 1 > Len(Docs) THEN "final" ELSE "wait"

\* __init__ of the phase's extractor and run_extraction up to the submit of
\* every file (no file: the phase returns)
StartPhase ==
    /\ mainPc = "start"
    /\ seen' = [k \in SeenKinds(Phase) |-> {}]
    /\ batch' = [k \in KindSet(Phase) |-> <<>>]
    /\ snap' = [k \in KindSet(Phase) |-> <<>>]
    /\ stats' = [k \in StatKeys(Phase) |-> 0]
    /\ emitted' = <<>>
    /\ appended' = {}
    /\ handed' = {}
    /\ failedRun' = FALSE
    /\ rowsChanged' = [races |-> 0, entries |-> 0]
    /\ finished' = {}
    /\ fut' = 1
    /\ IF Docs = <<>>
       THEN mainPc' = NoFilesPc /\ queue' = <<>>
       ELSE mainPc' = "wait" /\ queue' = [i \in 1..Len(Docs) |-> i]
    /\ UNCHANGED <<norm, scenario, lock, run, kidx, final, wk, store, tx, flushActive, failures,
                   endStore, endFailed>>

\* future.result() of future i returns
CollectFuture ==
    /\ mainPc = "wait"
    /\ fut \in finished
    /\ mainPc' = "check"
    /\ UNCHANGED <<norm, scenario, lock, run, fut, kidx, final, queue, finished, wk, seen, batch,
                   snap, store, tx, stats, flushActive, failures, failedRun, emitted,
                   appended, handed, rowsChanged, endStore, endFailed>>

\* `if len(primary batch) >= self.batch_size:` taken: batch_insert_data is called
ThresholdFlush ==
    /\ mainPc = "check"
    /\ Len(batch[Kinds(Phase)[1]]) >= BatchSize
    /\ mainPc' = FlushCallPc
    /\ flushActive' = flushActive + 1
    /\ kidx' = 1
    /\ final' = FALSE
    /\ tx' = store
    /\ UNCHANGED <<norm, scenario, lock, run, fut, queue, finished, wk, seen, batch, snap, store,
                   stats, failures, failedRun, emitted, appended, handed,
                   rowsChanged, endStore, endFailed>>

\* the threshold is not reached: on to the next future
NoFlush ==
    /\ mainPc = "check"
    /\ Len(batch[Kinds(Phase)[1]]) < BatchSize
    /\ mainPc' = AfterFuture(fut)
    /\ fut' = fut + 1
    /\ UNCHANGED <<norm, scenario, lock, run, kidx, final, queue, finished, wk, seen, batch, snap,
                   store, tx, stats, flushActive, failures, failedRun, emitted,
                   appended, handed, rowsChanged, endStore, endFailed>>

KeysOf(kind, recs) ==
    {<<kind, IF kind \in Tables THEN NaturalKey(kind, RowOf(kind, recs[i])) ELSE recs[i]>> :
        i \in 1..Len(recs)}

\* batch_insert_data: `if self.x_batch: ... for x in list(self.x_batch)`,
\* one batch after the other, inside the transaction
FlushRead ==
    /\ mainPc = "flush"
    /\ kidx <= Len(Kinds(Phase))
    /\ LET k == Kinds(Phase)[kidx]
       IN  /\ snap' = [snap EXCEPT ![k] = batch[k]]
           /\ tx' = Execute(k, tx, batch[k])
           /\ handed' = handed \cup KeysOf(k, batch[k])
    /\ kidx' = kidx + 1
    /\ UNCHANGED <<norm, scenario, lock, run, mainPc, fut, final, queue, finished, wk, seen, batch,
                   store, stats, flushActive, failures, failedRun, emitted,
                   appended, rowsChanged, endStore, endFailed>>

\* where run_extraction goes on when the flush has returned
AfterFlush == IF final THEN "complete" ELSE "clear"

\* conn.commit(): the transaction's writes reach the tables
FlushCommit ==
    /\ mainPc = "flush"
    /\ kidx > Len(Kinds(Phase))
    /\ store' = tx
    /\ tx' = <<>>
    /\ rowsChanged' =
           IF Phase = 3
           THEN [races |-> rowsChanged.races
                               + RowCount(store.races, snap.race_updates, "race_id"),
                 entries |-> rowsChanged.entries
                               + RowCount(store.entries, snap.entry_updates, "entry_id")]
           ELSE rowsChanged
    /\ flushActive' = flushActive - 1
    /\ mainPc' = AfterFlush
    /\ kidx' = 1
    /\ snap' = [k \in KindSet(Phase) |-> <<>>]
    /\ UNCHANGED <<norm, scenario, lock, run, fut, final, queue, finished, wk, seen, batch,
                   stats, failures, failedRun, emitted, appended, handed, endStore,
                   endFailed>>

\* an exception inside the transaction: logged, conn.rollback()
FlushFail ==
    /\ mainPc = "flush"
    /\ kidx > 1
    /\ failures < MaxFlushFailures
    /\ failures' = failures + 1
    /\ failedRun' = TRUE
    /\ store' = RolledBack(store, tx)
    /\ tx' = <<>>
    /\ flushActive' = flushActive - 1
    /\ mainPc' = AfterFlush
    /\ kidx' = 1
    /\ snap' = [k \in KindSet(Phase) |-> <<>>]
    /\ UNCHANGED <<norm, scenario, lock, run, fut, final, queue, finished, wk, seen, batch,
                   stats, emitted, appended, handed, rowsChanged, endStore,
                   endFailed>>

\* sqlite3.connect raises, before the try block of the flush: in the loop the
\* exception is caught by `except Exception` (the batches are not cleared);
\* at the final flush nothing catches it and the pipeline ends there
FlushConnectFail ==
    /\ mainPc = "flush"
    /\ kidx = 1
    /\ failures < MaxFlushFailures
    /\ failures' = failures + 1
    /\ failedRun' = TRUE
    /\ tx' = <<>>
    /\ flushActive' = flushActive - 1
    /\ IF final
       THEN mainPc' = "aborted" /\ fut' = fut
       ELSE mainPc' = AfterFuture(fut) /\ fut' = fut + 1
    /\ UNCHANGED <<norm, scenario, lock, run, kidx, final, queue, finished, wk, seen, batch, snap,
                   store, stats, emitted, appended, handed, rowsChanged, endStore,
                   endFailed>>

\* `self.x_batch[:] = []`, one batch after the other
ClearBatch ==
    /\ mainPc = "clear"
    /\ batch' = [batch EXCEPT ![Kinds(Phase)[kidx]] = <<>>]
    /\ IF kidx = Len(Kinds(Phase))
       THEN kidx' = 1 /\ mainPc' = AfterFuture(fut) /\ fut' = fut + 1
       ELSE kidx' = kidx + 1 /\ UNCHANGED <<mainPc, fut>>
    /\ UNCHANGED <<norm, scenario, lock, run, final, queue, finished, wk, seen, snap, store, tx, stats,
                   flushActive, failures, failedRun, emitted, appended, handed,
                   rowsChanged, endStore, endFailed>>

\* the executor has shut down; `if self.a_batch or self.b_batch or ...:` taken
FinalFlush ==
    /\ mainPc = "final"
    /\ \E k \in KindSet(Phase) : batch[k] # <<>>
    /\ mainPc' = FlushCallPc
    /\ flushActive' = flushActive + 1
    /\ kidx' = 1
    /\ final' = TRUE
    /\ tx' = store
    /\ UNCHANGED <<norm, scenario, lock, run, fut, queue, finished, wk, seen, batch, snap, store,
                   stats, failures, failedRun, emitted, appended, handed,
                   rowsChanged, endStore, endFailed>>

\* every batch is empty: no final flush
NoFinalFlush ==
    /\ mainPc = "final"
    /\ \A k \in KindSet(Phase) : batch[k] = <<>>
    /\ mainPc' = "complete"
    /\ UNCHANGED <<norm, scenario, lock, run, fut, kidx, final, queue, finished, wk, seen, batch,
                   snap, store, tx, stats, flushActive, failures, failedRun, emitted,
                   appended, handed, rowsChanged, endStore, endFailed>>

\* run_extraction has returned: the next phase run of the plan, if any
NextRun ==
    /\ mainPc \in {"complete", "failed"}
    /\ endStore' = Append(endStore, store)
    /\ endFailed' = Append(endFailed, failedRun \/ mainPc = "failed")
    /\ IF run < Len(plan)
       THEN run' = run + 1 /\ mainPc' = "start"
       ELSE run' = run /\ mainPc' = "done"
    /\ UNCHANGED <<norm, scenario, lock, fut, kidx, final, queue, finished, wk, seen, batch, snap,
                   store, tx, stats, flushActive, failures, failedRun, emitted,
                   appended, handed, rowsChanged>>

(* ------------------------------- workers ------------------------------ *)

Cur(w) == wk[w].prog[wk[w].ip]

Running(w) == wk[w].doc # 0 /\ wk[w].ip <= Len(wk[w].prog)

Bump(f, x, n) == IF x \in DOMAIN f THEN [f EXCEPT ![x] = @ + n] ELSE f @@ (x :> n)

\* a free pool thread takes the next submitted file: process_file reads it and
\* process_xml_content parses it (the threads are interchangeable: of the free
\* ones, the lowest-numbered takes it)
WorkerStart(w) ==
    /\ wk[w].doc = 0
    /\ \A v \in Workers : v < w => wk[v].doc # 0
    /\ queue # <<>>
    /\ wk' = [wk EXCEPT ![w] =
                 [doc |-> Head(queue),
                  prog |-> Program(Phase, Docs[Head(queue)], store.horses),
                  ip |-> 1,
                  cnt |-> [c \in Counters(Phase) |-> 0],
                  err |-> 0]]
    /\ queue' = Tail(queue)
    /\ UNCHANGED <<norm, scenario, lock, run, mainPc, fut, kidx, final, finished, seen, batch, snap,
                   store, tx, stats, flushActive, failures, failedRun, emitted,
                   appended, handed, rowsChanged, endStore, endFailed>>

\* `key not in self.seen_x`
WorkerCheck(w) ==
    /\ Running(w)
    /\ Cur(w).op = "check"
    /\ wk' = [wk EXCEPT ![w].ip =
                 IF Cur(w).key \in seen[Cur(w).kind] THEN @ + 1 + Cur(w).skip ELSE @ + 1]
    /\ UNCHANGED <<norm, scenario, lock, run, mainPc, fut, kidx, final, queue, finished, seen, batch,
                   snap, store, tx, stats, flushActive, failures, failedRun, emitted,
                   appended, handed, rowsChanged, endStore, endFailed>>

\* self.x_batch.append(data) / self.x_batch.extend(records), and the local count
WorkerAppend(w) ==
    /\ Running(w)
    /\ Cur(w).op = "append"
    /\ batch' = [batch EXCEPT ![Cur(w).kind] = @ \o Cur(w).recs]
    /\ wk' = [wk EXCEPT ![w].ip = @ + 1,
                        ![w].cnt = IF Cur(w).cnt = None THEN @
                                   ELSE [@ EXCEPT ![Cur(w).cnt] = @ + Len(Cur(w).recs)]]
    /\ emitted' = IF Cur(w).kind \in SeenKinds(Phase)
                  THEN Bump(emitted, <<Cur(w).kind, Cur(w).key>>, 1)
                  ELSE emitted
    /\ appended' = appended \cup KeysOf(Cur(w).kind, Cur(w).recs)
    /\ UNCHANGED <<norm, scenario, lock, run, mainPc, fut, kidx, final, queue, finished, seen, snap,
                   store, tx, stats, flushActive, failures, failedRun, handed,
                   rowsChanged, endStore, endFailed>>

\* self.seen_x[key] = True
WorkerMark(w) ==
    /\ Running(w)
    /\ Cur(w).op = "mark"
    /\ seen' = [seen EXCEPT ![Cur(w).kind] = @ \cup {Cur(w).key}]
    /\ wk' = [wk EXCEPT ![w].ip = @ + 1]
    /\ UNCHANGED <<norm, scenario, lock, run, mainPc, fut, kidx, final, queue, finished, batch, snap,
                   store, tx, stats, flushActive, failures, failedRun, emitted,
                   appended, handed, rowsChanged, endStore, endFailed>>

\* the read of `self.stats['errors'] += 1` in an except branch of
\* process_xml_content (no lock held)
WorkerErrRead(w) ==
    /\ Running(w)
    /\ Cur(w).op = "err_read"
    /\ wk' = [wk EXCEPT ![w].ip = @ + 1, ![w].err = stats["errors"]]
    /\ UNCHANGED <<norm, scenario, lock, run, mainPc, fut, kidx, final, queue, finished, seen, batch,
                   snap, store, tx, stats, flushActive, failures, failedRun, emitted,
                   appended, handed, rowsChanged, endStore, endFailed>>

\* the write of `self.stats['errors'] += 1`
WorkerErrWrite(w) ==
    /\ Running(w)
    /\ Cur(w).op = "err_write"
    /\ stats' = [stats EXCEPT !["errors"] = wk[w].err + 1]
    /\ wk' = [wk EXCEPT ![w].ip = @ + 1]
    /\ UNCHANGED <<norm, scenario, lock, run, mainPc, fut, kidx, final, queue, finished, seen, batch,
                   snap, store, tx, flushActive, failures, failedRun, emitted,
                   appended, handed, rowsChanged, endStore, endFailed>>

\* process_file's except branch: `with self.lock:` entered, errors read
WorkerLockedErrRead(w) ==
    /\ Running(w)
    /\ Cur(w).op = "lock_err_read"
    /\ lock = 0
    /\ lock' = w
    /\ wk' = [wk EXCEPT ![w].ip = @ + 1, ![w].err = stats["errors"]]
    /\ UNCHANGED <<norm, scenario, run, mainPc, fut, kidx, final, queue, finished, seen, batch,
                   snap, store, tx, stats, flushActive, failures, failedRun, emitted,
                   appended, handed, rowsChanged, endStore, endFailed>>

\* errors written, the lock released
WorkerLockedErrWrite(w) ==
    /\ Running(w)
    /\ Cur(w).op = "lock_err_write"
    /\ lock = w
    /\ lock' = 0
    /\ stats' = [stats EXCEPT !["errors"] = wk[w].err + 1]
    /\ wk' = [wk EXCEPT ![w].ip = @ + 1]
    /\ UNCHANGED <<norm, scenario, run, mainPc, fut, kidx, final, queue, finished, seen, batch,
                   snap, store, tx, flushActive, failures, failedRun, emitted,
                   appended, handed, rowsChanged, endStore, endFailed>>

\* the equipment records process_file counts for a file: those of the shared
\* batch whose race_id.split('_')[0] occurs in the file name
EquipmentOfFile(filename) ==
    Cardinality({i \in 1..Len(batch["equipment"]) :
                    Contains(filename, batch["equipment"][i].race_track)})

\* process_file after process_xml_content: the statistics, under self.lock;
\* then the future is done and the thread is free
WorkerFinish(w) ==
    /\ wk[w].doc # 0
    /\ wk[w].ip > Len(wk[w].prog)
    /\ lock = 0
    /\ stats' = [k \in DOMAIN stats |->
                    IF ~Docs[wk[w].doc].readable THEN stats[k]
                    ELSE IF k = "files_processed" THEN stats[k] + 1
                    ELSE IF k \in Counters(Phase) THEN stats[k] + wk[w].cnt[k]
                    ELSE IF k = "equipment_records"
                    THEN stats[k] + EquipmentOfFile(Docs[wk[w].doc].name)
                    ELSE stats[k]]
    /\ finished' = finished \cup {wk[w].doc}
    /\ wk' = [wk EXCEPT ![w] = Idle]
    /\ UNCHANGED <<norm, scenario, lock, run, mainPc, fut, kidx, final, queue, seen, batch, snap,
                   store, tx, flushActive, failures, failedRun, emitted, appended,
                   handed, rowsChanged, endStore, endFailed>>

(* ---------------------------- specification --------------------------- *)

Next ==
    \/ StartPhase
    \/ CollectFuture
    \/ ThresholdFlush
    \/ NoFlush
    \/ FlushRead
    \/ FlushCommit
    \/ FlushFail
    \/ FlushConnectFail
    \/ ClearBatch
    \/ FinalFlush
    \/ NoFinalFlush
    \/ NextRun
    \/ \E w \in Workers :
           \/ WorkerStart(w)
           \/ WorkerCheck(w)
           \/ WorkerAppend(w)
           \/ WorkerMark(w)
           \/ WorkerErrRead(w)
           \/ WorkerErrWrite(w)
           \/ WorkerLockedErrRead(w)
           \/ WorkerLockedErrWrite(w)
           \/ WorkerFinish(w)

Spec == Init /\ [][Next]_vars

(* ------------------------- the standardizer --------------------------- *)
(* A call of one function of RacingDataStandardizer on arguments drawn     *)
(* from the sets below; the extraction stands still.                       *)

\* whole numbers 0..MaxDenseDistance are all tried as distances
MaxDenseDistance == 700

\* race-type texts have up to MaxWords words
MaxWords == 3

DistanceValues ==
    {Digits(n) : n \in (0..MaxDenseDistance)
                        \cup {0 - 5, 1000, 1001, 1600, 2400, 5000, 5001, 6000}}
        \cup {Text(k) : k \in {"inf", "-inf", "nan", "word", "blank", "empty", "None"}}

UnitLabels ==
    {NoText, <<>>,
     <<"F">>,
     <<"F", "U", "R", "L", "O", "N", "G">>,
     <<"F", "U", "R", "L", "O", "N", "G", "S">>,
     <<"M">>,
     <<"M", "I", "L", "E">>,
     <<"M", "I", "L", "E", "S">>,
     <<"Y">>,
     <<"Y", "A", "R", "D">>,
     <<"Y", "A", "R", "D", "S">>,
     <<"f">>,
     <<"m", "i", "l", "e", "s">>,
     <<"K">>,
     <<"K", "M">>}

Vocabulary ==
    {<<"M", "A", "I", "D", "E", "N">>,
     <<"C", "L", "A", "I", "M", "I", "N", "G">>,
     <<"C", "L", "M">>,
     <<"M", "S", "W">>,
     <<"G", "1">>,
     <<"S", "T", "A", "K", "E", "S">>,
     <<"N", "2", "X">>,
     <<"m", "a", "i", "d", "e", "n">>,
     <<"H", "A", "N", "D", "I", "C", "A", "P">>,
     <<"X", "M", "A", "I", "D", "E", "N">>,
     <<"X", "C", "L", "M">>,
     <<"A", "L", "W", "S">>,
     <<"S", "T", "K", "S">>}

RECURSIVE JoinWith(_, _)
JoinWith(ws, sep) ==
    IF Len(ws) = 1 THEN ws[1] ELSE ws[1] \o sep \o JoinWith(Tail(ws), sep)

RaceTypeTexts ==
    {NoText, <<>>, <<" ">>}
        \cup {pad \o JoinWith(ws, sep) \o pad :
                 ws \in UNION {[1..n -> Vocabulary] : n \in 1..MaxWords},
                 sep \in {<<" ">>, <<" ", " ">>}, pad \in {<<>>, <<" ">>}}

\* words and phrases of sex restrictions
SexVocabulary ==
    {<<"F", "I", "L", "L", "I", "E", "S", " ", "A", "N", "D", " ", "M", "A", "R", "E", "S">>,
     <<"C", "O", "L", "T", "S", " ", "A", "N", "D", " ", "G", "E", "L", "D", "I", "N", "G", "S">>,
     <<"F", "I", "L", "L", "I", "E", "S">>,
     <<"M", "A", "R", "E", "S">>,
     <<"C", "O", "L", "T", "S">>,
     <<"G", "E", "L", "D", "I", "N", "G", "S">>,
     <<"A", "N", "D">>,
     <<"F", "&", "M">>,
     <<"f", "i", "l", "l", "i", "e", "s", " ", "a", "n", "d", " ", "m", "a", "r", "e", "s">>,
     <<"O", "P", "E", "N">>}

SexTexts ==
    {NoText, <<>>, <<" ">>}
        \cup {pad \o JoinWith(ws, <<" ">>) \o pad :
                 ws \in UNION {[1..n -> SexVocabulary] : n \in 1..MaxWords},
                 pad \in {<<>>, <<" ">>}}

\* equipment codes, an unknown token in both cases, and the delimiters
EquipmentTokens ==
    {<<"B">>, <<"L", "1">>, <<"T">>, <<"X">>, <<"x">>, <<"B", "L", "I", "N", "K", "E", "R", "S">>, <<"L">>}

EquipmentTexts ==
    {NoText, <<>>, <<" ">>}
        \cup {pad \o JoinWith(ws, sep) \o pad :
                 ws \in UNION {[1..n -> EquipmentTokens] : n \in 1..MaxWords},
                 sep \in {<<",">>, <<";">>, <<"/">>, <<" ">>, <<",", " ">>},
                 pad \in {<<>>, <<",">>}}

\* the equipment and medication texts of a starter
FeatureTexts ==
    {NoText}
        \cup {JoinWith(ws, <<",">>) :
                 ws \in UNION {[1..n -> EquipmentTokens] : n \in 1..MaxWords}}

NormCalls ==
    {[NoCall EXCEPT !.fn = "parse_distance", !.value = v, !.unit = u, !.pc = "call"] :
        v \in DistanceValues, u \in UnitLabels}
        \cup {[NoCall EXCEPT !.fn = "standardize_race_type", !.text = t, !.pc = "call"] :
                 t \in RaceTypeTexts}
        \cup {[NoCall EXCEPT !.fn = "standardize_sex_restrictions", !.text = t,
                             !.pc = "call"] : t \in SexTexts}
        \cup {[NoCall EXCEPT !.fn = "standardize_equipment", !.text = t,
                             !.pc = "call"] : t \in EquipmentTexts}
        \cup {[NoCall EXCEPT !.fn = "create_standardized_horse_features", !.text = t,
                             !.medication = m, !.pc = "call"] :
                 t \in FeatureTexts, m \in {NoText, <<"L">>, <<"X">>}}

InitNorm ==
    /\ norm \in NormCalls
    /\ scenario = "results"
    /\ run = 1
    /\ mainPc = "start"
    /\ fut = 1
    /\ kidx = 1
    /\ final = FALSE
    /\ queue = <<>>
    /\ finished = {}
    /\ wk = [w \in Workers |-> Idle]
    /\ seen = <<>>
    /\ batch = <<>>
    /\ snap = <<>>
    /\ store = EmptyStore
    /\ tx = <<>>
    /\ stats = <<>>
    /\ lock = 0
    /\ flushActive = 0
    /\ failures = 0
    /\ failedRun = FALSE
    /\ emitted = <<>>
    /\ appended = {}
    /\ handed = {}
    /\ rowsChanged = [races |-> 0, entries |-> 0]
    /\ endStore = <<>>
    /\ endFailed = <<>>

\* RacingDataStandardizer.parse_distance is called and returns or raises
ParseDistance ==
    /\ norm.pc = "call"
    /\ norm.fn = "parse_distance"
    /\ norm' = [norm EXCEPT !.out = parse_distance(norm.value, norm.unit),
                            !.pc = "returned"]
    /\ UNCHANGED pipelineVars

\* RacingDataStandardizer.standardize_race_type is called and returns
StandardizeRaceType ==
    /\ norm.pc = "call"
    /\ norm.fn = "standardize_race_type"
    /\ norm' = [norm EXCEPT !.out = standardize_race_type(norm.text),
                            !.pc = "returned"]
    /\ UNCHANGED pipelineVars

\* RacingDataStandardizer.standardize_sex_restrictions is called and returns
StandardizeSexRestrictions ==
    /\ norm.pc = "call"
    /\ norm.fn = "standardize_sex_restrictions"
    /\ norm' = [norm EXCEPT !.out = standardize_sex_restrictions(norm.text),
                            !.pc = "returned"]
    /\ UNCHANGED pipelineVars

\* RacingDataStandardizer.standardize_equipment is called and returns
StandardizeEquipment ==
    /\ norm.pc = "call"
    /\ norm.fn = "standardize_equipment"
    /\ norm' = [norm EXCEPT !.out = standardize_equipment_string(norm.text),
                            !.pc = "returned"]
    /\ UNCHANGED pipelineVars

\* RacingDataStandardizer.create_standardized_horse_features is called and
\* returns
CreateHorseFeatures ==
    /\ norm.pc = "call"
    /\ norm.fn = "create_standardized_horse_features"
    /\ norm' = [norm EXCEPT
                   !.out = create_standardized_horse_features(
                               standardize_equipment_string(norm.text),
                               standardize_equipment_string(norm.medication)),
                   !.pc = "returned"]
    /\ UNCHANGED pipelineVars

NextNorm ==
    \/ ParseDistance
    \/ StandardizeRaceType
    \/ StandardizeSexRestrictions
    \/ StandardizeEquipment
    \/ CreateHorseFeatures

SpecNorm == InitNorm /\ [][NextNorm]_vars

(* ------------------- one worker, files in listing order ---------------- *)

\* process_xml_content run from operation ip on, with no other thread at work:
\* the keys marked seen and the (kind, key) pairs appended
RECURSIVE RunProgram(_, _, _)
RunProgram(prog, ip, acc) ==
    IF ip > Len(prog) THEN acc
    ELSE LET c == prog[ip]
         IN  CASE c.op = "check" ->
                      IF <<c.kind, c.key>> \in acc.seen
                      THEN RunProgram(prog, ip + 1 + c.skip, acc)
                      ELSE RunProgram(prog, ip + 1, acc)
               [] c.op = "append" ->
                      RunProgram(prog, ip + 1,
                                 [acc EXCEPT !.out = @ \cup KeysOf(c.kind, c.recs)])
               [] c.op = "mark" ->
                      RunProgram(prog, ip + 1,
                                 [acc EXCEPT !.seen = @ \cup {<<c.kind, c.key>>}])
               [] OTHER -> RunProgram(prog, ip + 1, acc)

\* the files of a phase processed one after the other, in listing order
RECURSIVE RunFiles(_, _, _, _)
RunFiles(p, docs, horses, acc) ==
    IF docs = <<>> THEN acc
    ELSE RunFiles(p, Tail(docs), horses, RunProgram(Program(p, Head(docs), horses), 1, acc))

\* the (table, key) pairs a phase stores when its files are processed in
\* listing order and every transaction commits
SequentialKeys(p, docs, horses) ==
    {x \in RunFiles(p, docs, horses, [seen |-> {}, out |-> {}]).out : x[1] \in Tables}

\* the (table, key) pairs of the rows in the tables a phase inserts into
StoredKeys(p) ==
    UNION {{<<t, NaturalKey(t, r)>> : r \in store[t]} : t \in KindSet(p) \cap Tables}

\* entries whose registration number is the key of no stored horse
Orphans ==
    {e \in store.entries :
        \A h \in store.horses : h.registration_number # e.registration_number}

\* the files of the current phase that were found not to be well-formed
Malformed == {i \in finished : ~Docs[i].wellformed}

\* the files of the current phase whose processing ended in an except branch
ErrorEvents == {i \in finished : ~Docs[i].wellformed \/ ~Docs[i].readable}

\* the records of a file that process_xml_content drops because the field
\* their natural key is built from is missing (a Horse element without a
\* RegistrationNumber, a Race without a RaceNumber)
Dropped(p, doc) ==
    IF ~doc.readable \/ ~doc.wellformed THEN 0
    ELSE LET keyless(r) == {i \in 1..Len(r.starters) :
                               r.starters[i].horse /\ r.starters[i].reg = None}
         IN  CASE p = 1 ->
                      Cardinality(UNION {{<<j, i>> : i \in keyless(doc.races[j])} :
                                            j \in 1..Len(doc.races)})
               [] p = 2 ->
                      Cardinality({j \in 1..Len(doc.races) : doc.races[j].number = None})
                      + Cardinality(UNION {{<<j, i>> : i \in keyless(doc.races[j])} :
                                              j \in {n \in 1..Len(doc.races) :
                                                         doc.races[n].number # None}})
               [] OTHER -> 0

\* the records dropped in the files of the current phase processed so far
RECURSIVE DroppedUpTo(_)
DroppedUpTo(n) ==
    IF n = 0 THEN 0
    ELSE (IF n \in finished THEN Dropped(Phase, Docs[n]) ELSE 0) + DroppedUpTo(n - 1)

\* the skip count an extractor keeps: of its statistics, only
\* duplicates_skipped of the first phase counts something skipped
SkipCount ==
    IF "duplicates_skipped" \in DOMAIN stats THEN stats["duplicates_skipped"] ELSE 0

(* ------------------------------ properties ---------------------------- *)

\* C1: within one phase run, whatever the interleaving of the workers, each
\* natural key (registration number, trainer id, owner id, race key) is
\* appended to a batch at most once.
C1_KeyEmittedAtMostOnce ==
    \A x \in DOMAIN emitted : emitted[x] <= 1

\* C2: when a phase completes and none of its transactions was rolled back,
\* every record a worker has appended to a batch has been read by a flush,
\* also one appended while a threshold flush was in progress.
C2_AppendedIsFlushed ==
    (mainPc = "complete" /\ ~failedRun) => appended \subseteq handed

\* C3: at most one call of batch_insert_data / batch_update_data is in
\* progress at any time, in every phase.
C3_OneFlushAtATime ==
    flushActive <= 1

\* C3, its case: a flush is in progress while a worker is inside
\* process_xml_content
C3_FlushBesideWorker ==
    /\ flushActive = 1
    /\ mainPc = "flush"
    /\ \E w \in Workers : Running(w)

\* C4: after phase 1 and then phase 2 have run over the same files, neither
\* with a rolled-back transaction, every stored entry has the registration
\* number of exactly one stored horse.
C4_EntryJoinsOneHorse ==
    (scenario = "pipeline" /\ run = 2 /\ mainPc = "complete"
        /\ ~failedRun /\ ~endFailed[1])
    => \A e \in store.entries :
           Cardinality({h \in store.horses :
                           h.registration_number = e.registration_number}) = 1

\* C5: when phase 2 has completed and an entry is stored whose registration
\* number has no horse in storage, the errors statistic counts it (it counts
\* more than the files that could not be parsed).
C5_OrphanSurfaced ==
    (Phase = 2 /\ mainPc = "complete" /\ Orphans # {})
    => stats["errors"] >= Cardinality(Malformed) + Cardinality(Orphans)

\* C6: for a pre-race file and a result chart of the same track and date, the
\* race key phase 2 computes for a race number and the race key phase 3
\* computes for it are the same string, and so are the entry keys.
C6_SameKeyInBothPhases ==
    \A w \in Workers :
        (Phase = 3 /\ wk[w].doc # 0) =>
            LET rc == Docs[wk[w].doc]
                pps == PPDocs(scenario)
            IN  \A i \in 1..Len(pps) :
                    (pps[i].track = rc.track /\ pps[i].date = rc.date) =>
                        \A a \in 1..Len(pps[i].races), b \in 1..Len(rc.races) :
                            pps[i].races[a].number = rc.races[b].number =>
                                LET k2 == extract_race_data(pps[i].races[a],
                                                            TrackCodeOf(pps[i].name),
                                                            RaceDateOf(pps[i].name),
                                                            pps[i].name)[1].race_id
                                    k3 == RaceIdRC(rc.track, rc.date, rc.races[b].number)
                                IN  /\ k2 = k3
                                    /\ \A st \in {"H1", "H2"} : EntryId(k2, st) = EntryId(k3, st)

\* C7: a race row stored from a pre-race file has the track and the date of
\* the file, and race 3 of SIMD20230101AQU_USA.xml (600 F) is stored as
\* AQU_2023-01-01_3 with 1320 yards.
C7_TrackCodeFromFileName ==
    \A r \in store.races :
        /\ \A i \in 1..Len(PPDocs(scenario)) :
               LET d == PPDocs(scenario)[i]
               IN  r.source_file = Join(d.name) =>
                       /\ r.track_code = d.track
                       /\ r.track_code # "USA"
                       /\ r.race_date = d.date
        /\ (r.source_file = Join(PP_AQU.name) /\ r.race_number = "3") =>
               /\ r.race_id = "AQU_2023-01-01_3"
               /\ r.distance_yards = 1320

\* C8: when phase 3 has completed with every appended update flushed and no
\* transaction rolled back, races_updated and entries_updated are the numbers
\* of rows the UPDATE statements changed.
C8_UpdatedCountsChangedRows ==
    (Phase = 3 /\ mainPc = "complete" /\ ~failedRun /\ appended \subseteq handed)
    => /\ stats["races_updated"] = rowsChanged.races
       /\ stats["entries_updated"] = rowsChanged.entries

\* C9: after phase 1 has run twice over the same files, neither run with a
\* rolled-back transaction, the horses, trainers and owners in storage are
\* those the first run left, and no natural key is stored twice.
C9_SecondRunChangesNothing ==
    (scenario = "rerun" /\ mainPc = "done" /\ ~endFailed[1] /\ ~endFailed[2])
    => \A t \in {"horses", "trainers", "owners"} :
           /\ endStore[2][t] = endStore[1][t]
           /\ \A r1, r2 \in endStore[2][t] :
                  NaturalKey(t, r1) = NaturalKey(t, r2) => r1 = r2

\* C10: at the end of the first entity phase and of the pre-race phase after
\* it, with no transaction rolled back, the keys of the stored rows are those
\* stored when the files are processed one after the other in listing order.
C10_RowsIndependentOfOrder ==
    (scenario = "pipeline" /\ run \in {1, 2} /\ mainPc = "complete" /\ ~failedRun)
    => StoredKeys(Phase) = SequentialKeys(Phase, Docs, store.horses)

\* C11: a phase is at work (a thread on a file, a file waiting, a flush)
\* only between its start and its end, the runs that have ended are exactly
\* those before the current one, and the pipeline's k-th run is phase k.
C11_PhasesInSequence ==
    /\ mainPc \in {"start", "complete", "failed", "aborted", "done"}
           => /\ \A w \in Workers : wk[w].doc = 0
              /\ queue = <<>>
              /\ flushActive = 0
              /\ lock = 0
    /\ Len(endStore) = IF mainPc = "done" THEN run ELSE run - 1
    /\ scenario = "pipeline" => Phase = run

\* C11, its case: a thread of phase 2 is at work; phase 1 has ended
C11_SecondPhaseAtWork ==
    /\ scenario = "pipeline"
    /\ run = 2
    /\ Len(endStore) = 1
    /\ \E w \in Workers : Running(w)

\* C12: when a phase has failed (no file found, or a flush that failed) and
\* the plan has a later phase, the pipeline has not come to a stop.
C12_FailureDoesNotStopPipeline ==
    ((failedRun \/ mainPc = "failed") /\ run < Len(plan)) => ENABLED Next

\* C13: a flush that ends with a failure leaves the tables as they were
\* before it, and a flush that ends with its commit leaves them with the
\* writes of every batch it has read.
C13_FlushIsOneTransaction ==
    [][flushActive' < flushActive =>
           IF failures' > failures
           THEN store' = store
           ELSE store' = Commit(Phase, store, snap)]_vars

\* C13, its case: a flush of the first run has read records and failed, and
\* none of them is stored
C13_FailedFlushStoresNothing ==
    /\ run = 1
    /\ mainPc = "clear"
    /\ failedRun
    /\ handed # {}
    /\ StoredKeys(Phase) = {}

\* C14: when a phase completes after one of its flushes has failed, the
\* errors statistic counts more than the files that ended in an error.
C14_FailedFlushCounted ==
    (mainPc = "complete" /\ failedRun) => stats["errors"] > Cardinality(ErrorEvents)

\* C15: when the main thread, having collected a file's result, finds any
\* batch of the phase holding at least batch_size records, its next step is
\* a flush.
C15_AnyFullBatchIsFlushed ==
    [][(/\ mainPc = "check"
        /\ mainPc' # "check"
        /\ \E k \in KindSet(Phase) : Len(batch[k]) >= BatchSize)
       => mainPc' = "flush"]_vars

\* C16: a final flush is in progress only when every file's thread has
\* finished, and after a final flush that committed, in a phase with no
\* failed flush, every record still in a batch and every record appended
\* during the phase has been read by a flush.
C16_FinalFlushLeavesNothingUnwritten ==
    /\ (final /\ mainPc = "flush")
           => /\ \A w \in Workers : wk[w].doc = 0
              /\ queue = <<>>
              /\ finished = 1..Len(Docs)
    /\ (final /\ mainPc = "complete" /\ ~failedRun)
           => /\ \A k \in KindSet(Phase) : KeysOf(k, batch[k]) \subseteq handed
              /\ appended \subseteq handed

\* C17: when a phase in which a file could not be read or parsed completes,
\* every file's processing has returned, the records of the other files
\* have been appended, and the errors statistic counts each such file.
C17_FileErrorCaughtAndCounted ==
    (mainPc = "complete" /\ ErrorEvents # {})
    => /\ finished = 1..Len(Docs)
       /\ SequentialKeys(Phase, Docs, store.horses) \subseteq appended
       /\ stats["errors"] = Cardinality(ErrorEvents)

\* C18: at the end of a phase, whatever the interleaving, errors is the
\* number of files that ended in an except branch and files_processed is the
\* number of files whose processing returned normally.
C18_CountersLoseNoIncrement ==
    mainPc \in {"complete", "aborted"}
    => /\ stats["errors"] = Cardinality(ErrorEvents)
       /\ stats["files_processed"] = Cardinality({i \in finished : Docs[i].readable})

\* C19: a phase that finds no file ends as failed with no thread started, no
\* file queued or processed, no flush, nothing appended, its statistics at
\* zero and the tables as the phase found them.
C19_NoFilesNoWork ==
    (Docs = <<>> /\ mainPc # "start")
    => /\ mainPc \in {"failed", "done"}
       /\ \A w \in Workers : wk[w].doc = 0
       /\ queue = <<>>
       /\ finished = {}
       /\ flushActive = 0
       /\ appended = {}
       /\ handed = {}
       /\ \A k \in DOMAIN stats : stats[k] = 0
       /\ ~failedRun
       /\ store = IF Len(endStore) = 0 THEN EmptyStore ELSE endStore[Len(endStore)]

\* C19, its case: the second phase of a pipeline has found no file
C19_PhaseFoundNoFile ==
    /\ mainPc = "failed"
    /\ run = 2

\* C20: no record is appended to a batch without the fields its natural key
\* is built from (an entry update's race key comes from a chart that has a
\* track code, a race date and the race's number), and at the end of a phase
\* errors counts nothing but the files that ended in an except branch.
C20_KeylessRecordNotEmitted ==
    /\ \A x \in appended :
           /\ x[1] \in {"horses", "trainers", "owners", "races", "entries"}
                  => x[2] # None
           /\ x[1] = "entry_updates"
                  => \E i \in 1..Len(Docs) :
                         /\ Docs[i].date # None
                         /\ Docs[i].track # None
                         /\ \E j \in 1..Len(Docs[i].races) :
                                /\ Docs[i].races[j].number # None
                                /\ x[2].race_id = RaceIdRC(Docs[i].track, Docs[i].date,
                                                           Docs[i].races[j].number)
    /\ mainPc = "complete" => stats["errors"] <= Cardinality(ErrorEvents)

\* C21: at the end of a phase of insertion (1 or 2) the skip count the
\* extractor reports equals the number of records its files dropped for a
\* missing natural-key field.
C21_DroppedRecordsCounted ==
    (mainPc = "complete" /\ Phase \in {1, 2})
    => SkipCount = DroppedUpTo(Len(Docs))

\* the horses in storage that bear a name
Named(horse_name) == {h \in store.horses : h.horse_name = horse_name}

\* the entries of the charts `files` of the current phase that name a horse
\* in storage, each with its race key
NamedEntries(files) ==
    UNION {UNION {{[race_id |-> RaceIdRC(Fmt(Docs[i].track), Fmt(Docs[i].date),
                                         Fmt(Docs[i].races[j].number)),
                    name |-> Docs[i].races[j].entries[n].name] :
                      n \in {m \in 1..Len(Docs[i].races[j].entries) :
                                /\ Docs[i].races[j].entries[m].name # None
                                /\ Named(Docs[i].races[j].entries[m].name) # {}}} :
                  j \in 1..Len(Docs[i].races)} :
           i \in {d \in files : Docs[d].wellformed /\ Docs[d].readable}}

\* C22: in phase 3 every entry update and every position call appended to a
\* batch belongs to an entry that names a horse in storage and carries the
\* registration number of a horse of that name, a lookup miss is not counted
\* as an error, and at the end of the phase every entry that names a horse in
\* storage has its entry update.
C22_LookupMissSkipsEntry ==
    Phase = 3
    => /\ \A x \in appended :
              x[1] \in {"entry_updates", "position_calls"}
              => \E f \in NamedEntries(1..Len(Docs)) :
                     /\ f.race_id = x[2].race_id
                     /\ \E h \in Named(f.name) :
                            h.registration_number = x[2].registration_number
       /\ mainPc = "complete"
              => /\ stats["errors"] <= Cardinality(ErrorEvents)
                 /\ \A f \in NamedEntries(finished) :
                        \E x \in appended :
                            /\ x[1] = "entry_updates"
                            /\ x[2].race_id = f.race_id
                            /\ \E h \in Named(f.name) :
                                   h.registration_number = x[2].registration_number

\* C22, its case: a chart has been processed in which an entry that names no
\* horse in storage comes before an entry that has produced its update and
\* its position call
C22_EntryAfterMissUpdated ==
    /\ Phase = 3
    /\ mainPc = "complete"
    /\ \E i \in finished : \E j \in 1..Len(Docs[i].races) :
           \E m, n \in 1..Len(Docs[i].races[j].entries) :
               /\ m < n
               /\ Named(Docs[i].races[j].entries[m].name) = {}
               /\ \E x, y \in appended :
                      /\ x[1] = "entry_updates"
                      /\ y[1] = "position_calls"
                      /\ x[2].race_id = RaceIdRC(Docs[i].track, Docs[i].date,
                                                 Docs[i].races[j].number)
                      /\ y[2].race_id = x[2].race_id
                      /\ \E h \in Named(Docs[i].races[j].entries[n].name) :
                             h.registration_number = x[2].registration_number

\* C23: no step changes or removes a stored row of the horse, trainer or
\* owner table, no step leaves two rows with one natural key there, and a
\* step of phase 2 or 3 leaves these tables as they are.
C23_MasterRowsWrittenOnce ==
    [][\A t \in {"horses", "trainers", "owners"} :
          /\ store[t] \subseteq store'[t]
          /\ \A r, q \in store'[t] : NaturalKey(t, r) = NaturalKey(t, q) => r = q
          /\ Phase # 1 => store'[t] = store[t]]_vars

\* C23, its case: the transaction of a flush of phase 1 has executed the
\* insert of a horse record whose registration number is the key of a row
\* with another year of birth, and the row is as it was
C23_SecondInsertIgnored ==
    /\ Phase = 1
    /\ mainPc = "flush"
    /\ kidx > 1
    /\ \E h \in tx.horses : \E i \in 1..Len(snap.horses) :
           /\ snap.horses[i].registration_number = h.registration_number
           /\ snap.horses[i].year_of_birth # h.year_of_birth

\* round(a / b) for whole numbers a >= 0, b > 0 (a tie goes to the even number)
RoundDiv(a, b) ==
    LET q == a \div b
        r == a % b
    IN  IF 2 * r < b THEN q
        ELSE IF 2 * r > b THEN q + 1
        ELSE IF q % 2 = 0 THEN q ELSE q + 1

\* a call of parse_distance has returned or raised
DistanceReturned == norm.fn = "parse_distance" /\ norm.pc = "returned"

\* a call of standardize_race_type has returned
RaceTypeReturned == norm.fn = "standardize_race_type" /\ norm.pc = "returned"

\* C24: for a whole number v >= 100 with the unit F, FURLONG or FURLONGS,
\* parse_distance returns round(v / 100 * 220).
C24_FurlongHundredthsRounded ==
    (DistanceReturned /\ norm.value.kind = "digits" /\ norm.value.n >= 100
        /\ norm.unit \in {<<"F">>, <<"F", "U", "R", "L", "O", "N", "G">>, <<"F", "U", "R", "L", "O", "N", "G", "S">>})
    => norm.out = Ret(RoundDiv(norm.value.n * 220, 100))

\* C25: for a whole number v >= 100 with the unit M, MILE or MILES,
\* parse_distance returns round(v / 1600 * 1760).
C25_MileHundredthsRounded ==
    (DistanceReturned /\ norm.value.kind = "digits" /\ norm.value.n >= 100
        /\ norm.unit \in {<<"M">>, <<"M", "I", "L", "E">>, <<"M", "I", "L", "E", "S">>})
    => norm.out = Ret(RoundDiv(norm.value.n * 1760, 1600))

\* C26: without a unit (None or the empty text) parse_distance returns for a
\* whole number v what it returns for v with the unit F when v < 20, with
\* the unit Y when v > 1000 and with the unit M otherwise.
C26_AbsentUnitInferred ==
    (DistanceReturned /\ norm.value.kind = "digits" /\ norm.unit \in {NoText, <<>>})
    => norm.out = parse_distance(norm.value,
                                 IF norm.value.n < 20 THEN <<"F">>
                                 ELSE IF norm.value.n > 1000 THEN <<"Y">>
                                 ELSE <<"M">>)

\* C26, its case: 1000 with an empty unit has been taken for miles
C26_ThousandIsMiles ==
    /\ DistanceReturned
    /\ norm.value = Digits(1000)
    /\ norm.unit = <<>>
    /\ norm.out = Ret(1100)

\* a unit label that is not empty and names neither furlongs, miles nor yards
UnknownLabel(unit) ==
    /\ unit \notin {NoText, <<>>}
    /\ Join(Upper(unit)) \notin FurlongUnits \cup MileUnits \cup YardUnits

\* C27: with an unknown unit label parse_distance returns for a whole number
\* v what it returns for v without a unit, except that v > 5000 is taken for
\* feet and divided by 3.
C27_UnknownUnitAsAbsent ==
    (DistanceReturned /\ norm.value.kind = "digits" /\ UnknownLabel(norm.unit))
    => norm.out = IF norm.value.n > 5000 THEN Ret(norm.value.n \div 3)
                  ELSE parse_distance(norm.value, NoText)

\* C28: parse_distance returns None for an empty and for a non-numeric
\* distance value, and no call of a standardizer function ends in an
\* exception: each returns a value or None.
C28_StandardizerNeverRaises ==
    /\ (DistanceReturned /\ norm.value.kind \in {"None", "empty", "blank", "word"})
           => norm.out = RetNone
    /\ DistanceReturned => norm.out.ret \in {"value", "None"}
    /\ RaceTypeReturned => norm.out.class_level \in 0..10

\* C29: a race-type text that contains MAIDEN CLAIMING or MAIDEN CLM, in
\* whatever case and with whatever other words, is classified with class
\* level 1 and a code other than MAIDEN.
C29_CompoundMaidenClaimingWins ==
    (RaceTypeReturned /\ norm.text # NoText
        /\ \E k \in {<<"M", "A", "I", "D", "E", "N", " ", "C", "L", "A", "I", "M", "I", "N", "G">>,
                      <<"M", "A", "I", "D", "E", "N", " ", "C", "L", "M">>} :
               Contains(Upper(norm.text), k))
    => /\ norm.out.class_level = 1
       /\ norm.out.race_type_code # "MAIDEN"

\* C29, its case: a text with the compound phrase after a word of the class
\* table has been classified
C29_CompoundBesideTableCode ==
    /\ RaceTypeReturned
    /\ norm.text = <<"G", "1", " ", "M", "A", "I", "D", "E", "N", " ", "C", "L", "A", "I", "M", "I", "N", "G">>
    /\ norm.out.race_type_code = "CLAIMING"

\* C30: the purse category of a classification is the one the thresholds of
\* _get_purse_category give its class level.
C30_PurseCategoryFromClassLevel ==
    RaceTypeReturned => norm.out.purse_category = get_purse_category(norm.out.class_level)

\* the rule that applies first to an upper-case text, in the order compound
\* phrase, table code as a whole word, keyword, default
RuleOf(cleaned) ==
    IF \E k \in {<<"M", "A", "I", "D", "E", "N", " ", "C", "L", "A", "I", "M", "I", "N", "G">>,
                 <<"M", "A", "I", "D", "E", "N", " ", "C", "L", "M">>} :
           Contains(cleaned, k)
    THEN "compound"
    ELSE IF \E i \in 1..Len(race_type_hierarchy) :
                \E j \in 1..Len(SplitWords(cleaned)) :
                    SplitWords(cleaned)[j] = race_type_hierarchy[i].code
    THEN "table"
    ELSE IF \E k \in {<<"M", "A", "I", "D", "E", "N">>, <<"M", "S", "W">>} :
                Contains(cleaned, k)
    THEN "maiden"
    ELSE IF \E k \in {<<"C", "L", "A", "I", "M", "I", "N", "G">>, <<"C", "L", "M">>} :
                Contains(cleaned, k)
    THEN "claiming"
    ELSE IF \E k \in {<<"A", "L", "L", "O", "W", "A", "N", "C", "E">>, <<"A", "L", "W">>} :
                Contains(cleaned, k)
    THEN "allowance"
    ELSE IF \E k \in {<<"S", "T", "A", "K", "E", "S">>, <<"S", "T", "K">>} :
                Contains(cleaned, k)
    THEN "stakes"
    ELSE "default"

\* what a rule says of the code and the class level of the classification
RuleGives(rule, cleaned, out) ==
    CASE rule = "compound" -> out.race_type_code = "CLAIMING" /\ out.class_level = 1
      [] rule = "table" ->
            \E i \in 1..Len(race_type_hierarchy) :
                /\ \E j \in 1..Len(SplitWords(cleaned)) :
                       SplitWords(cleaned)[j] = race_type_hierarchy[i].code
                /\ out.race_type_code = Join(race_type_hierarchy[i].code)
                /\ out.class_level = race_type_hierarchy[i].level
      [] rule = "maiden" -> out.race_type_code = "MAIDEN" /\ out.class_level = 1
      [] rule = "claiming" -> out.race_type_code = "CLAIMING" /\ out.class_level = 2
      [] rule = "allowance" -> out.race_type_code = "ALLOWANCE" /\ out.class_level = 5
      [] rule = "stakes" -> out.race_type_code = "STAKES" /\ out.class_level = 6
      [] rule = "default" -> out.race_type_code = "OTHER" /\ out.class_level = 3

\* a text that is None, empty or white space only
Blank(text) == text = NoText \/ Strip(text) = <<>>

\* C31: standardize_race_type decides by the first rule that applies, in the
\* order compound phrase, table code as a whole word, keyword in the
\* precedence maiden, claiming, allowance, stakes, default; every input that
\* matches none of the first three is classified OTHER with class level 3.
C31_FirstRuleDecides ==
    RaceTypeReturned
    => RuleGives(IF Blank(norm.text) THEN "default" ELSE RuleOf(Upper(Strip(norm.text))),
                 Upper(Strip(norm.text)), norm.out)

\* C31 for the texts the rules are applied to: a text that is not None,
\* empty or blank is classified by the first rule that applies, and a text
\* that is None, empty or blank is classified UNKNOWN with class level 0.
C31_FirstRuleDecidesOnText ==
    RaceTypeReturned
    => IF Blank(norm.text)
       THEN norm.out.race_type_code = "UNKNOWN" /\ norm.out.class_level = 0
       ELSE RuleGives(RuleOf(Upper(Strip(norm.text))), Upper(Strip(norm.text)), norm.out)

\* C31, its case: a text with a maiden and a claiming keyword inside longer
\* words, and no table code, has been classified by the maiden keyword
C31_TwoKeywordsMaidenFirst ==
    /\ RaceTypeReturned
    /\ norm.text = <<"X", "C", "L", "M", " ", "X", "M", "A", "I", "D", "E", "N">>
    /\ norm.out.race_type_code = "MAIDEN"

\* a call of standardize_sex_restrictions has returned
SexReturned == norm.fn = "standardize_sex_restrictions" /\ norm.pc = "returned"

\* the flags that are true in the returned record
FlagsSet == {f \in DOMAIN norm.out : norm.out[f]}

\* C32: a text that contains FILLIES AND MARES gets the flag
\* fillies_and_mares, a text that contains COLTS AND GELDINGS gets the flag
\* colts_and_geldings, and neither gets one of the four single-sex flags.
C32_CombinedPhraseSetsCombinedFlag ==
    (SexReturned /\ norm.text # NoText)
    => /\ Contains(Upper(norm.text), <<"F", "I", "L", "L", "I", "E", "S", " ", "A", "N", "D", " ", "M", "A", "R", "E", "S">>)
             => "fillies_and_mares" \in FlagsSet
       /\ Contains(Upper(norm.text), <<"C", "O", "L", "T", "S", " ", "A", "N", "D", " ", "G", "E", "L", "D", "I", "N", "G", "S">>)
             => "colts_and_geldings" \in FlagsSet
       /\ (Contains(Upper(norm.text), <<"F", "I", "L", "L", "I", "E", "S", " ", "A", "N", "D", " ", "M", "A", "R", "E", "S">>)
              \/ Contains(Upper(norm.text), <<"C", "O", "L", "T", "S", " ", "A", "N", "D", " ", "G", "E", "L", "D", "I", "N", "G", "S">>))
             => FlagsSet \subseteq {"fillies_and_mares", "colts_and_geldings"}

\* a call of standardize_equipment has returned
EquipmentReturned == norm.fn = "standardize_equipment" /\ norm.pc = "returned"

\* C33: the list standardize_equipment returns holds no token twice, be it
\* the canonical name of a code or an unknown token kept as it is.
C33_EquipmentTokensDistinct ==
    EquipmentReturned
    => \A i, j \in 1..Len(norm.out) : norm.out[i] = norm.out[j] => i = j

\* a call of create_standardized_horse_features has returned
FeaturesReturned ==
    norm.fn = "create_standardized_horse_features" /\ norm.pc = "returned"

\* C34: the features of the equipment text B,L1,T without medication are the
\* tokens BLINKERS, LASIX_FIRST_TIME, TONGUE_TIE with has_blinkers and
\* has_lasix true, and has_lasix is true whenever a token of the equipment
\* is a Lasix code, L1 among them.
C34_LasixCodeSetsHasLasix ==
    FeaturesReturned
    => /\ (norm.text = <<"B", ",", "L", "1", ",", "T">> /\ norm.medication = NoText)
             => /\ norm.out.equipment_codes
                       = <<"BLINKERS", "LASIX_FIRST_TIME", "TONGUE_TIE">>
                /\ norm.out.has_blinkers
                /\ norm.out.has_lasix
       /\ (\E i \in 1..Len(norm.out.equipment_codes) :
               norm.out.equipment_codes[i]
                   \in {"LASIX", "LASIX_FIRST_TIME", "LASIX_SECOND_TIME"})
             => norm.out.has_lasix

\* the flags of a stored entry and the canonical token of each
FlagToken ==
    [has_blinkers |-> "BLINKERS", has_lasix |-> "LASIX",
     has_tongue_tie |-> "TONGUE_TIE", has_nasal_strip |-> "NASAL_STRIP",
     has_shadow_roll |-> "SHADOW_ROLL", has_cheek_pieces |-> "CHEEK_PIECES",
     has_ear_plugs |-> "EAR_PLUGS", has_hood |-> "HOOD"]

\* C38: each equipment flag of a stored entry is true exactly when its
\* canonical token is in the standardized equipment of the starter the entry
\* was extracted from.
C38_StoredFlagsMatchEquipment ==
    \A e \in store["entries"] :
        \A k \in 1..Len(PPDocs(scenario)) :
            \A j \in 1..Len(PPDocs(scenario)[k].races) :
                \A i \in 1..Len(PPDocs(scenario)[k].races[j].starters) :
                    LET st == PPDocs(scenario)[k].races[j].starters[i]
                    IN  (/\ Join(PPDocs(scenario)[k].name) = e.source_file
                         /\ st.horse
                         /\ st.reg = e.registration_number)
                        => \A f \in DOMAIN FlagToken :
                               e[f] <=> InSeq(FlagToken[f],
                                              standardize_equipment(st.equipment))

\* the files of the phase that cannot be read or cannot be parsed
FailedFiles == {i \in 1..Len(Docs) : ~Docs[i].readable \/ ~Docs[i].wellformed}

PreRace(table, row) ==
    IF table = "races" THEN [row EXCEPT !.winning_time = NoNum]
    ELSE [row EXCEPT !.official_finish_position = NoNum]

C39_AtMostOneSexFlag ==
    SexReturned
    => /\ Cardinality(FlagsSet) <= 1
       /\ (Blank(norm.text)
              \/ \A k \in {<<"F", "I", "L", "L", "I", "E", "S">>,
                            <<"M", "A", "R", "E", "S">>,
                            <<"C", "O", "L", "T", "S">>,
                            <<"G", "E", "L", "D", "I", "N", "G", "S">>,
                            <<"F", "&", "M">>} :
                     ~Contains(Upper(norm.text), k))
             => FlagsSet = {}

\* C39, its case: a text with two single terms has got the flag of the first
\* of the chain alone
C39_TwoTermsOneFlag ==
    /\ SexReturned
    /\ norm.text = <<"F", "I", "L", "L", "I", "E", "S", " ", "C", "O", "L", "T", "S">>
    /\ FlagsSet = {"fillies_only"}

====
